---- MODULE Spec2Model ----
(***************************************************************************)
(* Aetherial Gardens: the sliding-tile Board engine (game/puzzle.py), the  *)
(* star rating function (game/star.py), the progress store (game/save.py)  *)
(* and the frame loop of game/main.py with its screens and fade.           *)
(*                                                                         *)
(* A Board is a grid of Tile objects (number, rect) plus the cached        *)
(* empty_pos.  Cells are (row, col) pairs, 0-based as in the code.  Each   *)
(* public call of the Board is one action; the variable call records the   *)
(* last completed call and pre the board as it was when that call began.   *)
(* One pass of the frame loop is one action; there call records the event  *)
(* the pass dispatched.                                                    *)
(***************************************************************************)
EXTENDS Integers, Sequences, FiniteSets, TLC

VARIABLES
    alive,      \* TRUE while a Board object exists
    rows,       \* Board.rows
    cols,       \* Board.cols
    tiles,      \* Board.tiles : cell -> Tile
    empty_pos,  \* Board.empty_pos
    call,       \* the last completed call: [op, args, raised, result]
    pre,        \* numbers and empty_pos of the board when that call began
    pc,               \* main.py: "loop", "exit" (loop left), "done", "crashed"
    game_state,       \* main.py game_state
    target_state,     \* main.py target_state
    in_transition,    \* main.py in_transition
    transition_alpha, \* main.py transition_alpha
    elapsed,          \* pygame.time.get_ticks() - transition_start_time
    selected_level,   \* main.py selected_level
    board,            \* main.py board
    hud_move_count,   \* hud.move_count
    star_rating,      \* star_hud.rating
    progress,         \* main.py progress, the in-memory record
    disk,             \* save_data.json
    image_loaded,     \* custom_puzzle_screen.image_loader holds a surface
    status_message,   \* custom_puzzle_screen.status_message
    mixer_volume,     \* level of the last audio.set_volume(level), in percent
    cues,             \* audio cues requested by the last pass of the loop
    crops,            \* is_solved() at each get_cropped_image call of the last pass
    exit_saves,       \* save_progress calls made after the loop was left
    gallery_data,     \* Gallery.gallery_data["memories"] of each Gallery instance
    gallery_json,     \* user_memories/gallery.json: its "memories" list
    image_files       \* the image files in user_memories/

bvars == <<alive, rows, cols, tiles, empty_pos>>

gvars == <<pc, game_state, target_state, in_transition, transition_alpha,
           elapsed, selected_level, board, hud_move_count, star_rating, progress,
           disk, image_loaded, status_message, mixer_volume, cues, crops,
           exit_saves>>

galvars == <<gallery_data, gallery_json, image_files>>

vars == <<alive, rows, cols, tiles, empty_pos, call, pre, pc, game_state,
          target_state, in_transition, transition_alpha, elapsed,
          selected_level, board, hud_move_count, star_rating, progress, disk,
          image_loaded, status_message, mixer_volume, cues, crops, exit_saves,
          gallery_data, gallery_json, image_files>>

(***************************************************************************)
(* Inputs.                                                                 *)
(***************************************************************************)
\* (rows, cols) pairs handed to the constructor.
Dims == {<<1, 1>>, <<1, 2>>, <<2, 1>>, <<2, 2>>, <<2, 3>>}

\* Largest argument of a direct shuffle(n) call.
MaxShuffle == 2

\* Largest move_count handed to compute_rating.
MaxMoveCount == 122

\* board_size values handed to compute_rating (3, 4, 5 are in the table).
BoardSizes == 0 .. 7

(***************************************************************************)
(* Geometry: main.py builds every Board with tile_size=120, margin=4, and  *)
(* puzzle.py centres the board in a fixed 800x600 window.                  *)
(***************************************************************************)
TileSize == 120
Margin == 4
WindowW == 800
WindowH == 600

Cells(R, C) == (0 .. R - 1) \X (0 .. C - 1)

offset_x(C) == (WindowW - (C * TileSize + (C + 1) * Margin)) \div 2
offset_y(R) == (WindowH - (R * TileSize + (R + 1) * Margin)) \div 2

\* Top-left pixel of the grid cell (r, c), as both _create_tiles and _swap compute it.
CellX(C, c) == (c + 1) * Margin + c * TileSize + offset_x(C)
CellY(R, r) == (r + 1) * Margin + r * TileSize + offset_y(R)

\* pygame.Rect(pos[0], pos[1], size, size)
Rect(x, y, size) == [x |-> x, y |-> y, w |-> size, h |-> size]

\* collidepoint taking the right and bottom edges as inside.
collidepoint_inclusive(rect, p) ==
    /\ rect.x <= p[1] /\ p[1] <= rect.x + rect.w
    /\ rect.y <= p[2] /\ p[2] <= rect.y + rect.h

\* pygame.Rect.collidepoint: left/top edges inside, right/bottom edges outside.
collidepoint(rect, p) ==
    /\ rect.x <= p[1] /\ p[1] < rect.x + rect.w
    /\ rect.y <= p[2] /\ p[2] < rect.y + rect.h

\* Tile.image: None, or the fragment of the scaled source image cut at the
\* region of grid cell (r, c).
NoImage == <<-1, -1>>
subsurface(r, c) == <<r, c>>

\* Tile(number, size, pos): image is None.
Tile(number, size, x, y) ==
    [number |-> number, size |-> size, rect |-> Rect(x, y, size), image |-> NoImage]

(***************************************************************************)
(* Board._create_tiles                                                     *)
(***************************************************************************)
\* Numbering that multiplies the row by the row count.
CreateNumberRows(R, C, r, c) ==
    IF <<r, c>> = <<R - 1, C - 1>> THEN 0 ELSE r * R + c + 1

CreateNumber(R, C, r, c) ==
    IF <<r, c>> = <<R - 1, C - 1>> THEN 0 ELSE r * C + c + 1

\* _create_tiles taking x from the row and y from the column.
_create_tiles_transposed(R, C) ==
    [tiles |-> [cell \in Cells(R, C) |->
                    Tile(CreateNumber(R, C, cell[1], cell[2]), TileSize,
                         CellX(C, cell[1]), CellY(R, cell[2]))],
     empty_pos |-> <<R - 1, C - 1>>,
     raised |-> FALSE]

_create_tiles(R, C) ==
    [tiles |-> [cell \in Cells(R, C) |->
                    Tile(CreateNumber(R, C, cell[1], cell[2]), TileSize,
                         CellX(C, cell[2]), CellY(R, cell[1]))],
     empty_pos |-> <<R - 1, C - 1>>,
     raised |-> FALSE]

\* _swap that assigns one side only: tiles[a] = tiles[b].
_swap_copy(R, C, t, pos_a, pos_b) ==
    [t EXCEPT ![pos_a] = [t[pos_b] EXCEPT !.rect.x = CellX(C, pos_a[2]),
                                          !.rect.y = CellY(R, pos_a[1])]]

\* _swap that exchanges the Tile objects and leaves their rects where they were.
_swap_norealign(R, C, t, pos_a, pos_b) ==
    [t EXCEPT ![pos_a] = t[pos_b], ![pos_b] = t[pos_a]]

(***************************************************************************)
(* Board._swap: exchange the two Tile objects, then realign both rects.    *)
(***************************************************************************)
_swap(R, C, t, pos_a, pos_b) ==
    LET exchanged == [t EXCEPT ![pos_a] = t[pos_b], ![pos_b] = t[pos_a]]
    IN  [exchanged EXCEPT
            ![pos_a].rect.x = CellX(C, pos_a[2]),
            ![pos_a].rect.y = CellY(R, pos_a[1]),
            ![pos_b].rect.x = CellX(C, pos_b[2]),
            ![pos_b].rect.y = CellY(R, pos_b[1])]

\* _neighbors wrapping around the left and right edges.
_neighbors_wrap(R, C, row, col) ==
    (IF row > 0 THEN <<(<<row - 1, col>>)>> ELSE <<>>)
    \o (IF row < R - 1 THEN <<(<<row + 1, col>>)>> ELSE <<>>)
    \o <<(<<row, (col - 1) % C>>)>>
    \o <<(<<row, (col + 1) % C>>)>>

(***************************************************************************)
(* Board._neighbors: the list built by the four tests, in the code's order.*)
(***************************************************************************)
_neighbors(R, C, row, col) ==
    (IF row > 0 THEN <<(<<row - 1, col>>)>> ELSE <<>>)
    \o (IF row < R - 1 THEN <<(<<row + 1, col>>)>> ELSE <<>>)
    \o (IF col > 0 THEN <<(<<row, col - 1>>)>> ELSE <<>>)
    \o (IF col < C - 1 THEN <<(<<row, col + 1>>)>> ELSE <<>>)

InList(x, list) == \E i \in 1 .. Len(list) : list[i] = x

(***************************************************************************)
(* Board.click_at: scan the grid row-major; the first non-empty tile whose *)
(* rect holds the point and whose cell neighbours empty_pos is swapped.    *)
(***************************************************************************)
ClickHits(R, C, b, mouse_pos) ==
    {cell \in Cells(R, C) :
        /\ collidepoint(b.tiles[cell].rect, mouse_pos)
        /\ b.tiles[cell].number # 0
        /\ InList(cell, _neighbors(R, C, b.empty_pos[1], b.empty_pos[2]))}

FirstRowMajor(C, S) ==
    CHOOSE cell \in S : \A o \in S : cell[1] * C + cell[2] <= o[1] * C + o[2]

\* click_at that swaps and forgets to move empty_pos.
click_at_stale(R, C, b, mouse_pos) ==
    LET hits == ClickHits(R, C, b, mouse_pos)
    IN  IF hits = {} THEN b
        ELSE [b EXCEPT !.tiles = _swap(R, C, b.tiles, FirstRowMajor(C, hits), b.empty_pos)]

\* click_at without the test that the tile hit neighbours the empty cell.
click_at_any(R, C, b, mouse_pos) ==
    LET hits == {cell \in Cells(R, C) :
                    /\ collidepoint(b.tiles[cell].rect, mouse_pos)
                    /\ b.tiles[cell].number # 0}
    IN  IF hits = {} THEN b
        ELSE LET cell == FirstRowMajor(C, hits)
             IN  [b EXCEPT !.tiles = _swap(R, C, b.tiles, cell, b.empty_pos),
                           !.empty_pos = cell]

click_at(R, C, b, mouse_pos) ==
    LET hits == ClickHits(R, C, b, mouse_pos)
    IN  IF hits = {} THEN b
        ELSE LET cell == FirstRowMajor(C, hits)
             IN  [b EXCEPT !.tiles = _swap(R, C, b.tiles, cell, b.empty_pos),
                           !.empty_pos = cell]

(***************************************************************************)
(* Board.shuffle: moves times, random.choice over _neighbors(empty_pos),   *)
(* swap, move empty_pos.  random.choice([]) raises IndexError.             *)
(***************************************************************************)
ShuffleStep(R, C, b) ==
    IF b.raised THEN {b}
    ELSE LET possible == _neighbors(R, C, b.empty_pos[1], b.empty_pos[2])
         IN  IF Len(possible) = 0 THEN {[b EXCEPT !.raised = TRUE]}
             ELSE {[b EXCEPT !.tiles = _swap(R, C, b.tiles, b.empty_pos, possible[i]),
                             !.empty_pos = possible[i]] : i \in 1 .. Len(possible)}

\* The boards that `moves` further iterations of the loop can leave, from any
\* board of S.
RECURSIVE ShuffleRange(_, _, _, _)
ShuffleRange(R, C, S, moves) ==
    IF moves <= 0 \/ Cardinality(S) = 0 THEN S
    ELSE IF moves = 1 THEN UNION {ShuffleStep(R, C, b) : b \in S}
    ELSE ShuffleRange(R, C, ShuffleRange(R, C, S, moves \div 2),
                      moves - moves \div 2)

\* shuffle looping once too often.
shuffle_extra(R, C, b, moves) == ShuffleRange(R, C, {b}, moves + 1)

\* Every outcome shuffle(moves) can have on board b.
shuffle(R, C, b, moves) == ShuffleRange(R, C, {b}, moves)

(***************************************************************************)
(* Board.is_solved                                                         *)
(***************************************************************************)
\* Expected value that multiplies the row by the row count.
ExpectedRows(R, C, r, c) ==
    IF <<r, c>> = <<R - 1, C - 1>> THEN 0 ELSE r * R + c + 1

Expected(R, C, r, c) ==
    IF <<r, c>> = <<R - 1, C - 1>> THEN 0 ELSE r * C + c + 1

is_solved(R, C, t) ==
    \A r \in 0 .. R - 1 : \A c \in 0 .. C - 1 : t[<<r, c>>].number = Expected(R, C, r, c)

(***************************************************************************)
(* Board.apply_custom_image and Board.get_cropped_image.  No caller in     *)
(* main.py hands an image_surface to the constructor, so apply_image is    *)
(* never run.                                                              *)
(***************************************************************************)
\* apply_custom_image(img): the tile standing on cell (r, c) when the call
\* is made, unless it is the empty one, gets the fragment of region (r, c).
apply_custom_image(R, C, t, img) ==
    IF ~img THEN t
    ELSE [cell \in Cells(R, C) |->
             IF t[cell].number = 0 THEN t[cell]
             ELSE [t[cell] EXCEPT !.image = subsurface(cell[1], cell[2])]]

\* get_cropped_image(): for each cell the fragment blitted at it, NoImage
\* where nothing is blitted.
get_cropped_image(R, C, t) ==
    [cell \in Cells(R, C) |->
        IF t[cell].number # 0 /\ t[cell].image # NoImage THEN t[cell].image
        ELSE NoImage]

(***************************************************************************)
(* Board.__init__: _create_tiles, then shuffle(80).                        *)
(***************************************************************************)
InitShuffle == 80

Board__init__(R, C) == shuffle(R, C, _create_tiles(R, C), InitShuffle)

\* The outcomes of the constructor, computed once per input.
ConstructOutcomes == [d \in Dims |-> Board__init__(d[1], d[2])]

(***************************************************************************)
(* StarHUD.compute_rating with STAR_THRESHOLDS; float("inf") is a value    *)
(* above every integer.                                                    *)
(***************************************************************************)
Finite(v) == [inf |-> FALSE, v |-> v]
Infinity == [inf |-> TRUE, v |-> 0]

\* move_count <= threshold
LeqThreshold(m, thr) == thr.inf \/ m <= thr.v

STAR_THRESHOLDS ==
    (3 :> <<Finite(20), Finite(30)>>)
    @@ (4 :> <<Finite(40), Finite(60)>>)
    @@ (5 :> <<Finite(80), Finite(120)>>)

Thresholds(board_size) ==
    IF board_size \in DOMAIN STAR_THRESHOLDS
    THEN STAR_THRESHOLDS[board_size]
    ELSE <<Infinity, Infinity>>

\* compute_rating comparing with < instead of <=.
compute_rating_strict(board_size, move_count) ==
    LET thr == Thresholds(board_size)
    IN  IF thr[1].inf \/ move_count < thr[1].v THEN 3
        ELSE IF thr[2].inf \/ move_count < thr[2].v THEN 2
        ELSE 1

compute_rating(board_size, move_count) ==
    LET thr == Thresholds(board_size)
    IN  IF LeqThreshold(move_count, thr[1]) THEN 3
        ELSE IF LeqThreshold(move_count, thr[2]) THEN 2
        ELSE 1

(***************************************************************************)
(* State machine.                                                          *)
(***************************************************************************)
Numbers(t) == [cell \in DOMAIN t |-> t[cell].number]

NoTiles == [cell \in {} |-> 0]
NoCall == [op |-> "none", args |-> <<>>, raised |-> FALSE, result |-> "None"]
NoPre == [numbers |-> NoTiles, empty_pos |-> <<0, 0>>]

Snapshot == [numbers |-> Numbers(tiles), empty_pos |-> empty_pos]

Board == [tiles |-> tiles, empty_pos |-> empty_pos, raised |-> FALSE]

\* Points clicked: the window origin (outside the board) and, for every
\* column and row, the first pixel of the cell and the first pixel after it.
ProbeXs(C) == {0} \cup UNION {{CellX(C, c), CellX(C, c) + TileSize} : c \in 0 .. C - 1}
ProbeYs(R) == {0} \cup UNION {{CellY(R, r), CellY(R, r) + TileSize} : r \in 0 .. R - 1}
MousePositions(R, C) == ProbeXs(C) \X ProbeYs(R)

(***************************************************************************)
(* Dictionaries: a Python dict is a function from its keys; None is -1     *)
(* (every stored number is a move count or a rating, never negative).      *)
(***************************************************************************)
None == -1

EmptyDict == [k \in {} |-> None]

HasKey(d, k) == k \in DOMAIN d

\* d.get(k, default)
Get(d, k, default) == IF k \in DOMAIN d THEN d[k] ELSE default

\* d[k] = v
Put(d, k, v) == [x \in (DOMAIN d) \cup {k} |-> IF x = k THEN v ELSE d[x]]

\* d.setdefault(k, v)
SetDefault(d, k, v) == IF k \in DOMAIN d THEN d ELSE Put(d, k, v)

\* del d[k]
Del(d, k) == [x \in (DOMAIN d) \ {k} |-> d[x]]

(***************************************************************************)
(* game/save.py: the progress store.  The file is [exists, data]; its      *)
(* data is the dict that json.dump wrote.                                  *)
(***************************************************************************)
NoFile == [exists |-> FALSE, parses |-> FALSE, data |-> EmptyDict]

File(data) == [exists |-> TRUE, parses |-> TRUE, data |-> data]

\* A file whose text json.load cannot parse.
Garbage == [exists |-> TRUE, parses |-> FALSE, data |-> EmptyDict]

\* The default dict of _ensure_file.
DefaultData ==
    Put(Put(Put(Put(EmptyDict, "best_3x3", None), "best_4x4", None),
            "best_5x5", None), "unlocked", TRUE)

\* _ensure_file(): the file afterwards.
_ensure_file(file) == IF file.exists THEN file ELSE File(DefaultData)

\* The nested map moved into the three flat keys, a missing size taking
\* fallback[flat key]; the nested map is deleted.
Flatten(data, fallback) ==
    LET old_best_moves == data["best_moves"]
        d3 == Put(data, "best_3x3", Get(old_best_moves, "3x3", fallback["best_3x3"]))
        d4 == Put(d3, "best_4x4", Get(old_best_moves, "4x4", fallback["best_4x4"]))
        d5 == Put(d4, "best_5x5", Get(old_best_moves, "5x5", fallback["best_5x5"]))
    IN  Del(d5, "best_moves")

\* old_best_moves.get(key): None for a missing size.
NoFallback == [k \in {"best_3x3", "best_4x4", "best_5x5"} |-> None]

\* load_progress(): the dict returned for the file as _ensure_file left it.
load_progress(file) ==
    LET data == _ensure_file(file).data
        flat == IF HasKey(data, "best_moves") THEN Flatten(data, NoFallback)
                ELSE data
    IN  SetDefault(SetDefault(SetDefault(SetDefault(flat,
            "best_3x3", None), "best_4x4", None), "best_5x5", None),
            "unlocked", TRUE)

\* load_progress() raises: json.load fails on the text of the file, and
\* nothing in load_progress catches it.
load_raises(file) == ~_ensure_file(file).parses

\* A save that writes the scores and drops the star map.
save_progress_scores_only(data) ==
    Del(IF HasKey(data, "best_moves")
        THEN Flatten(data, [k \in {"best_3x3", "best_4x4", "best_5x5"} |->
                                Get(data, k, None)])
        ELSE data, "best_stars")

\* save_progress(data): data as the call leaves it, which is also what
\* json.dump writes.
save_progress(data) ==
    IF HasKey(data, "best_moves")
    THEN Flatten(data, [k \in {"best_3x3", "best_4x4", "best_5x5"} |->
                            Get(data, k, None)])
    ELSE data

\* star_key(rows): the size-key "{rows}x{rows}".
star_key(n) == <<"1x1", "2x2", "3x3", "4x4", "5x5">>[n]

(***************************************************************************)
(* game/main.py: module state, callbacks and the three parts of one pass   *)
(* of the frame loop (event dispatch, fade, rendering).  They work on a    *)
(* record g of the module's globals; running and raised are the loop flag  *)
(* and "an exception left the pass".                                       *)
(***************************************************************************)
STATE_MENU == "menu"
STATE_LEVEL_SELECT == "level_select"
STATE_PLAYING == "playing"
STATE_PAUSED == "paused"
STATE_SETTINGS == "settings"
STATE_CUSTOM_PUZZLE == "custom_puzzle"
STATE_CROPPING == "cropping"
STATE_GALLERY == "gallery"

States == {STATE_MENU, STATE_LEVEL_SELECT, STATE_PLAYING, STATE_PAUSED,
           STATE_SETTINGS, STATE_CUSTOM_PUZZLE, STATE_CROPPING, STATE_GALLERY}

NoTarget == "None"

transition_duration == 500

\* selected_level: None, a LevelInfo of levels.LEVELS, or the dict that the
\* Custom Puzzle screen builds.
NoLevel == [kind |-> "None", rows |-> 0]
LevelInfo(n) == [kind |-> "LevelInfo", rows |-> n]
CustomLevel(n) == [kind |-> "dict", rows |-> n]

\* board: None or a Board of n rows and n columns.
NoBoard == [exists |-> FALSE, rows |-> 0, tiles |-> NoTiles, empty_pos |-> <<0, 0>>]
GameBoard(n, b) == [exists |-> TRUE, rows |-> n, tiles |-> b.tiles,
                    empty_pos |-> b.empty_pos]
AsBoard(gb) == [tiles |-> gb.tiles, empty_pos |-> gb.empty_pos, raised |-> FALSE]

\* Edge lengths of the boards played: levels.LEVELS[0], and the default
\* selected_size of the Custom Puzzle screen.
PlayedRows == {3}

\* Board(rows=n, cols=n, ...) makes 80 random moves.  The outcomes kept are
\* those of walks that spend all but 2 * HalfShuffle moves going back and
\* forth, so each is an outcome of the constructor.
HalfShuffle == 1

NewBoards == [n \in PlayedRows |->
                 {GameBoard(n, b) : b \in shuffle(n, n, _create_tiles(n, n), 2 * HalfShuffle)}]

\* hud.pause_rect and the save button of the solved screen.
pause_rect == [x |-> WindowW - 40 - 10, y |-> 10, w |-> 40, h |-> 40]
save_btn_rect == [x |-> WindowW \div 2 - 100, y |-> WindowH \div 2 + 50,
                  w |-> 200, h |-> 50]

\* play(name)
play(g, name) == [g EXCEPT !.cues = Append(@, name)]

\* start_transition(); target_state = new_state
switch_state(g, new_state) ==
    [g EXCEPT !.in_transition = TRUE, !.transition_alpha = 0, !.elapsed = 0,
              !.target_state = new_state]

\* finish_transition(); apply_state_change()
finish_and_apply(g) ==
    LET f == [g EXCEPT !.in_transition = FALSE, !.transition_alpha = 0]
    IN  IF f.target_state # NoTarget
        THEN [f EXCEPT !.game_state = f.target_state, !.target_state = NoTarget]
        ELSE f

toggle_pause(g) ==
    IF g.game_state = STATE_PLAYING THEN switch_state(g, STATE_PAUSED)
    ELSE IF g.game_state = STATE_PAUSED THEN switch_state(g, STATE_PLAYING)
    ELSE g

Raise(g) == [g EXCEPT !.raised = TRUE]

\* start_game(level_info): the outcomes, one per board the constructor
\* can return.
start_game(g, level_info) ==
    LET key == star_key(level_info.rows)
        stored == HasKey(g.progress, "best_moves")
                  /\ HasKey(g.progress["best_moves"], key)
    IN  {[g EXCEPT !.selected_level = level_info,
                   !.board = b,
                   !.hud_move_count = IF stored THEN g.progress["best_moves"][key]
                                      ELSE 0,
                   !.game_state = STATE_PLAYING,
                   !.star_rating = 0] : b \in NewBoards[level_info.rows]}

\* start_custom_game(level_info)
start_custom_game(g, level_info) ==
    {[g EXCEPT !.selected_level = level_info,
               !.board = [b EXCEPT !.tiles = apply_custom_image(
                             b.rows, b.rows, b.tiles,
                             level_info.kind = "dict" /\ g.image_loaded)],
               !.hud_move_count = 0,
               !.game_state = STATE_PLAYING,
               !.star_rating = 0] : b \in NewBoards[level_info.rows]}

\* restart_current_level(): selected_level.rows raises on a dict.
restart_current_level(g) ==
    IF g.selected_level.kind = "None" THEN {g}
    ELSE IF g.selected_level.kind = "dict" THEN {Raise(g)}
    ELSE {[g EXCEPT !.board = b, !.hud_move_count = 0, !.star_rating = 0] :
              b \in NewBoards[g.selected_level.rows]}

\* The volume main.py takes when the record holds none, in percent.
DefaultVolume == 40

\* audio.set_volume(level): the music and every loaded sound take level.
set_volume(g, level) == [g EXCEPT !.mixer_volume = level]

\* main.py 63-66: the level applied at start-up for the record loaded.
startup_volume(data) ==
    IF Get(data, "muted", FALSE) THEN 0 ELSE Get(data, "volume", DefaultVolume)

\* The volume callback storing the level and leaving the save to the exit.
set_volume_callback_unsaved(g, level) ==
    LET stored == Put(SetDefault(g.progress, "volume", DefaultVolume),
                      "volume", level)
        g1 == IF ~Get(stored, "muted", FALSE) THEN set_volume(g, level) ELSE g
    IN  [g1 EXCEPT !.progress = stored]

\* set_volume_callback(level), the set_volume callback of the settings
\* screen; level in percent.
set_volume_callback(g, level) ==
    LET stored == Put(SetDefault(g.progress, "volume", DefaultVolume),
                      "volume", level)
        g1 == IF ~Get(stored, "muted", FALSE) THEN set_volume(g, level) ELSE g
        saved == save_progress(stored)
    IN  [g1 EXCEPT !.progress = saved, !.disk = File(saved)]

\* toggle_mute() leaving the mixer as it is.
toggle_mute_stored_only(g) ==
    LET muted == ~Get(g.progress, "muted", FALSE)
        saved == save_progress(Put(g.progress, "muted", muted))
    IN  [g EXCEPT !.progress = saved, !.disk = File(saved)]

\* toggle_mute(), the set_muted callback of the settings screen.
toggle_mute(g) ==
    LET muted == ~Get(g.progress, "muted", FALSE)
        stored == Put(g.progress, "muted", muted)
        g1 == set_volume(g, IF muted THEN 0
                            ELSE Get(stored, "volume", DefaultVolume))
        saved == save_progress(stored)
    IN  [g1 EXCEPT !.progress = saved, !.disk = File(saved)]

\* hud.increment_moves()
increment_moves(g) == [g EXCEPT !.hud_move_count = @ + 1]

\* star_hud.set_rating(rating): clamped to 0..3.
set_rating(rating) ==
    LET low == IF rating < 3 THEN rating ELSE 3 IN IF low > 0 THEN low ELSE 0

\* A record update that adds each solve to the stored count.
record_solve_total(p, n, count, rating) ==
    LET size_key == star_key(n)
        best_moves == Get(Get(p, "best_moves", EmptyDict), size_key, None)
        q == SetDefault(p, "best_moves", EmptyDict)
    IN  Put(q, "best_moves", Put(q["best_moves"], size_key,
                                 IF best_moves = None THEN count
                                 ELSE best_moves + count))

\* The record update of the solved screen (main.py 540-550).
record_solve(p, n, count, rating) ==
    LET size_key == star_key(n)
        best_moves == Get(Get(p, "best_moves", EmptyDict), size_key, None)
        p1 == IF best_moves = None \/ count < best_moves
              THEN LET q == SetDefault(p, "best_moves", EmptyDict)
                   IN  Put(q, "best_moves", Put(q["best_moves"], size_key, count))
              ELSE p
        best_star == Get(Get(p1, "best_stars", EmptyDict), size_key, 0)
    IN  IF rating > best_star
        THEN LET q == SetDefault(p1, "best_stars", EmptyDict)
             IN  Put(q, "best_stars", Put(q["best_stars"], size_key, rating))
        ELSE p1

\* Events: e.on is the button of the dispatching screen whose rect holds
\* e.pos ("" when none does), e.level the LevelInfo rows of a level button.
Event(type, on, level, pos) == [type |-> type, on |-> on, level |-> level, pos |-> pos]
NoEvent == Event("NOEVENT", "", 0, <<0, 0>>)
QuitEvent == Event("QUIT", "", 0, <<0, 0>>)
Click(on, level, pos) == Event("MOUSEBUTTONDOWN", on, level, pos)

\* hud.handle_event(event)
hud_handle_event(g, e) ==
    IF collidepoint(pause_rect, e.pos) THEN toggle_pause(g) ELSE g

\* menu.handle_event(event) with the buttons of main.py 369-375.
menu_handle_event(g, e) ==
    CASE e.on = "Start" -> switch_state(g, STATE_LEVEL_SELECT)
      [] e.on = "Settings" -> switch_state(g, STATE_SETTINGS)
      [] e.on = "Custom Puzzle" -> switch_state(g, STATE_CUSTOM_PUZZLE)
      [] e.on = "Gallery" -> switch_state(g, STATE_GALLERY)
      [] e.on = "Quit" -> [g EXCEPT !.running = FALSE]
      [] OTHER -> g

\* level_select.handle_event(event)
level_select_handle_event(g, e) ==
    CASE e.on = "Level" -> start_game(g, LevelInfo(e.level))
      [] e.on = "Back" -> {switch_state(g, STATE_MENU)}
      [] OTHER -> {g}

\* settings_screen.handle_event(event): mute toggle and Back.
settings_handle_event(g, e) ==
    CASE e.on = "Mute" -> toggle_mute(g)
      [] e.on = "Back" -> switch_state(g, STATE_MENU)
      [] OTHER -> g

\* custom_puzzle_screen.status_message: the texts of custom_puzzle.py.
MSG_PROMPT == "Select an image to create a custom puzzle"
MSG_LOADED == "Image loaded successfully! Select puzzle size and start."
MSG_LOAD_ERROR == "Error loading image. Please try another file."
MSG_NO_SELECTION == "No image selected."
MSG_NO_IMAGE == "No image loaded. Please select an image first."

\* image_loader.select_image_file(): True with a path kept, or False when
\* the dialog is cancelled, the extension is not supported, the file is not
\* there, or tkinter raises.  image_loader.load_and_process_image(): True,
\* or False when PIL or pygame raises.
SelectOutcomes == {"cancelled", "unsupported", "not_found", "dialog_raised"}
LoadOutcomes == {"load_raised"}
ImageOutcomes == {"loaded"} \cup SelectOutcomes \cup LoadOutcomes

\* _select_image() letting the loader's exception through.
_select_image_unguarded(g, outcome) ==
    IF outcome = "loaded"
    THEN [g EXCEPT !.image_loaded = TRUE, !.status_message = MSG_LOADED]
    ELSE IF outcome \in {"dialog_raised", "load_raised"}
    THEN Raise(g)
    ELSE [g EXCEPT !.status_message = MSG_NO_SELECTION]

\* CustomPuzzleScreen._select_image(): a selection that fails leaves the
\* loader's surface as it was.
_select_image(g, outcome) ==
    IF outcome \in SelectOutcomes
    THEN [g EXCEPT !.status_message = MSG_NO_SELECTION]
    ELSE IF outcome \in LoadOutcomes
    THEN [g EXCEPT !.status_message = MSG_LOAD_ERROR]
    ELSE [g EXCEPT !.image_loaded = TRUE, !.status_message = MSG_LOADED]

\* custom_puzzle_screen.handle_event(event)
custom_puzzle_handle_event(g, e) ==
    CASE e.on = "Select Image" -> {_select_image(g, o) : o \in ImageOutcomes}
      [] e.on = "Start Puzzle" ->
            IF g.image_loaded THEN start_custom_game(g, CustomLevel(e.level))
            ELSE {[g EXCEPT !.status_message = MSG_NO_IMAGE]}
      [] e.on = "Back" -> {switch_state(g, STATE_MENU)}
      [] OTHER -> {g}

\* gallery_screen.handle_event(event): Back.
gallery_handle_event(g, e) ==
    IF e.on = "Back" THEN switch_state(g, STATE_MENU) ELSE g

\* pause_menu.handle_event(event)
pause_menu_handle_event(g, e) ==
    CASE e.on = "Resume" -> {toggle_pause(g)}
      [] e.on = "Restart" -> restart_current_level(g)
      [] e.on = "Main Menu" -> {switch_state(g, STATE_MENU)}
      [] OTHER -> {g}

\* board.get_cropped_image() as main.py calls it: crops keeps what
\* is_solved() is when the call is made.
cropped(g) ==
    [g EXCEPT !.crops = Append(@, is_solved(g.board.rows, g.board.rows,
                                            g.board.tiles))]

\* The click branch counting every click, moved tile or not.
playing_click_every(g, e) ==
    LET n == g.board.rows
        b == click_at(n, n, AsBoard(g.board), e.pos)
    IN  play(play(increment_moves([g EXCEPT !.board = GameBoard(n, b)]), "move"),
             "place")

\* The left-click branch of state Playing (main.py 401-459), before the
\* HUD sees the event.
playing_click(g, e) ==
    LET n == g.board.rows
        g0 == cropped(g)
        should_show_save == g.selected_level.kind = "dict"
        b == click_at(n, n, AsBoard(g.board), e.pos)
        g1 == [g0 EXCEPT !.board = GameBoard(n, b)]
    IN  IF /\ is_solved(n, n, g.board.tiles)
           /\ should_show_save
           /\ collidepoint(save_btn_rect, e.pos)
        THEN Raise(g0)
        ELSE IF b.empty_pos # g.board.empty_pos
             THEN play(play(increment_moves(g1), "move"), "place")
             ELSE g1

\* The body of "for event in pygame.event.get()" for one event: the
\* outcomes.
dispatch(g, e) ==
    IF e.type = "QUIT" THEN {[g EXCEPT !.running = FALSE]}
    ELSE IF e.type # "MOUSEBUTTONDOWN" THEN {g}
    ELSE CASE g.game_state = STATE_MENU -> {menu_handle_event(g, e)}
           [] g.game_state = STATE_LEVEL_SELECT -> level_select_handle_event(g, e)
           [] g.game_state = STATE_SETTINGS -> {settings_handle_event(g, e)}
           [] g.game_state = STATE_CUSTOM_PUZZLE -> custom_puzzle_handle_event(g, e)
           [] g.game_state = STATE_GALLERY -> {gallery_handle_event(g, e)}
           [] g.game_state = STATE_PLAYING ->
                 LET c == playing_click(g, e)
                 IN  {IF c.raised THEN c ELSE hud_handle_event(c, e)}
           [] g.game_state = STATE_PAUSED ->
                 {IF p.raised THEN p ELSE hud_handle_event(p, e) :
                      p \in pause_menu_handle_event(g, e)}
           [] OTHER -> {g}

\* The fade step of a pass (main.py 484-494).
fade(g) ==
    IF ~g.in_transition THEN g
    ELSE LET capped == IF g.elapsed < transition_duration THEN g.elapsed
                       ELSE transition_duration
             g1 == [g EXCEPT !.transition_alpha =
                               (capped * 255) \div transition_duration]
         IN  IF g.elapsed >= transition_duration THEN finish_and_apply(g1)
             ELSE g1

\* Rendering (main.py 496-607): only the solved screen of Playing and
\* Paused changes state.
render(g) ==
    IF g.game_state \notin {STATE_PLAYING, STATE_PAUSED} THEN g
    ELSE IF ~g.board.exists THEN Raise(g)
    ELSE IF ~is_solved(g.board.rows, g.board.rows, g.board.tiles) THEN g
    ELSE IF g.selected_level.kind # "LevelInfo" THEN Raise(g)
    ELSE LET rating == compute_rating(g.selected_level.rows, g.hud_move_count)
             g1 == [g EXCEPT !.star_rating = set_rating(rating),
                             !.progress = record_solve(g.progress,
                                 g.selected_level.rows, g.hud_move_count, rating)]
         IN  cropped(play(g1, "complete"))

\* main.py up to the loop: progress is loaded, the menu is shown.
InitGame ==
    /\ pc = "loop"
    /\ game_state = STATE_MENU
    /\ target_state = NoTarget
    /\ in_transition = FALSE
    /\ transition_alpha = 255
    /\ elapsed = 0
    /\ selected_level = NoLevel
    /\ board = NoBoard
    /\ hud_move_count = 0
    /\ star_rating = 0
    /\ progress = load_progress(NoFile)
    /\ disk = _ensure_file(NoFile)
    /\ image_loaded = FALSE
    /\ status_message = MSG_PROMPT
    /\ mixer_volume = startup_volume(load_progress(NoFile))
    /\ cues = <<>>
    /\ crops = <<>>
    /\ exit_saves = 0

(***************************************************************************)
(* game/gallery.py: class Gallery.  An entry of "memories" is kept by its  *)
(* filename (size, moves, stars and date play no part in what follows).    *)
(* main.py builds two instances, gallery and gallery_screen.gallery, over  *)
(* the same directory.                                                     *)
(***************************************************************************)
Instances == {"gallery", "gallery_screen"}

Filenames == {"memory_1.png", "memory_2.png"}

Entry(filename) == [filename |-> filename]

\* The directory and the instances as one value.
Gal == [data |-> gallery_data, json |-> gallery_json, files |-> image_files]

\* self.gallery_data["memories"] of instance i replaced by memories.
WithMemories(gal, i, memories) ==
    [gal EXCEPT !.data = [j \in Instances |-> IF j = i THEN memories
                                              ELSE gal.data[j]]]

\* _save_gallery_data() of instance i.
_save_gallery_data(gal, i) == [gal EXCEPT !.json = gal.data[i]]

\* Gallery(): the file is there; the instance loads it.
Gallery__init__(gal, i) == WithMemories(gal, i, gal.json)

\* A filename that save_memory can generate: timestamp and uuid make it
\* differ from every file and every entry there is.
Fresh(gal, filename) ==
    /\ filename \notin gal.files
    /\ \A j \in Instances : \A n \in 1 .. Len(gal.data[j]) :
          gal.data[j][n].filename # filename
    /\ \A n \in 1 .. Len(gal.json) : gal.json[n].filename # filename

\* save_memory(image, puzzle_size, moves, stars) of instance i, filename
\* being the name it generates.
save_memory(gal, i, filename) ==
    _save_gallery_data(
        WithMemories([gal EXCEPT !.files = @ \cup {filename}], i,
                     Append(gal.data[i], Entry(filename))), i)

\* A delete that drops the entry before it tries to remove the file.
delete_memory_entry_first(gal, i, filename, os_error) ==
    LET kept == SelectSeq(gal.data[i], LAMBDA m : m.filename # filename)
        g1 == _save_gallery_data(WithMemories(gal, i, kept), i)
    IN  IF filename \in gal.files /\ os_error
        THEN [gal |-> g1, result |-> FALSE]
        ELSE [gal |-> [g1 EXCEPT !.files = @ \ {filename}], result |-> TRUE]

\* delete_memory(filename) of instance i; os_error: os.remove raises
\* OSError.  The directory afterwards and the value returned.
delete_memory(gal, i, filename, os_error) ==
    IF filename \in gal.files /\ os_error
    THEN [gal |-> gal, result |-> FALSE]
    ELSE LET g1 == [gal EXCEPT !.files = @ \ {filename}]
             kept == SelectSeq(g1.data[i], LAMBDA m : m.filename # filename)
         IN  [gal |-> _save_gallery_data(WithMemories(g1, i, kept), i),
              result |-> TRUE]

InitGallery ==
    /\ gallery_data = [i \in Instances |-> <<>>]
    /\ gallery_json = <<>>
    /\ image_files = {}

Init ==
    /\ alive = FALSE
    /\ rows = 0
    /\ cols = 0
    /\ tiles = NoTiles
    /\ empty_pos = <<0, 0>>
    /\ call = NoCall
    /\ pre = NoPre
    /\ InitGame
    /\ InitGallery

\* board = Board(rows=R, cols=C, tile_size=120, margin=4)
Construct(R, C) ==
    /\ ~alive
    /\ \E b \in ConstructOutcomes[<<R, C>>] :
          /\ call' = [op |-> "construct", args |-> <<R, C, TileSize, Margin>>,
                      raised |-> b.raised, result |-> "None"]
          /\ IF b.raised
             THEN UNCHANGED <<alive, rows, cols, tiles, empty_pos>>
             ELSE /\ alive' = TRUE
                  /\ rows' = R
                  /\ cols' = C
                  /\ tiles' = b.tiles
                  /\ empty_pos' = b.empty_pos
    /\ pre' = NoPre
    /\ UNCHANGED gvars
    /\ UNCHANGED galvars

\* board.click_at(mouse_pos)
ClickAt(mouse_pos) ==
    /\ alive
    /\ LET b == click_at(rows, cols, Board, mouse_pos)
       IN  /\ tiles' = b.tiles
           /\ empty_pos' = b.empty_pos
    /\ call' = [op |-> "click_at", args |-> mouse_pos, raised |-> FALSE,
                result |-> "None"]
    /\ pre' = Snapshot
    /\ UNCHANGED <<alive, rows, cols>>
    /\ UNCHANGED gvars
    /\ UNCHANGED galvars

\* board.shuffle(moves)
Shuffle(moves) ==
    /\ alive
    /\ \E b \in shuffle(rows, cols, Board, moves) :
          /\ tiles' = b.tiles
          /\ empty_pos' = b.empty_pos
          /\ call' = [op |-> "shuffle", args |-> <<moves>>, raised |-> b.raised,
                      result |-> "None"]
    /\ pre' = Snapshot
    /\ UNCHANGED <<alive, rows, cols>>
    /\ UNCHANGED gvars
    /\ UNCHANGED galvars

\* board.is_solved()
IsSolved ==
    /\ alive
    /\ call' = [op |-> "is_solved", args |-> <<>>, raised |-> FALSE,
                result |-> is_solved(rows, cols, tiles)]
    /\ pre' = Snapshot
    /\ UNCHANGED <<alive, rows, cols, tiles, empty_pos>>
    /\ UNCHANGED gvars
    /\ UNCHANGED galvars

\* The board is replaced (new level, restart): the object is dropped.
Discard ==
    /\ alive
    /\ alive' = FALSE
    /\ rows' = 0
    /\ cols' = 0
    /\ tiles' = NoTiles
    /\ empty_pos' = <<0, 0>>
    /\ call' = NoCall
    /\ pre' = NoPre
    /\ UNCHANGED gvars
    /\ UNCHANGED galvars

Next ==
    \/ \E d \in Dims : Construct(d[1], d[2])
    \/ \E p \in MousePositions(rows, cols) : ClickAt(p)
    \/ \E n \in 0 .. MaxShuffle : Shuffle(n)
    \/ IsSolved
    \/ Discard

Spec == Init /\ [][Next]_vars

\* StarHUD.compute_rating(board_size, move_count), a static method.
ComputeRating(board_size, move_count) ==
    /\ call' = [op |-> "compute_rating", args |-> <<board_size, move_count>>,
                raised |-> FALSE, result |-> compute_rating(board_size, move_count)]
    /\ UNCHANGED <<alive, rows, cols, tiles, empty_pos, pre>>
    /\ UNCHANGED gvars
    /\ UNCHANGED galvars

NextRating ==
    \E s \in BoardSizes : \E m \in 0 .. MaxMoveCount : ComputeRating(s, m)

SpecRating == Init /\ [][NextRating]_vars

(***************************************************************************)
(* The frame loop of main.py.                                               *)
(***************************************************************************)
\* Milliseconds between two passes of the loop.
FrameTimes == {250}

\* Largest hud.move_count at which a click on the board is still offered.
MaxMoves == 2

\* Buttons of the screen that state s dispatches to.  The mute toggle of
\* the settings screen is offered by MutePass of the store specification.
Buttons(s) ==
    CASE s = STATE_MENU -> {"Start", "Settings", "Custom Puzzle", "Gallery", "Quit"}
      [] s = STATE_LEVEL_SELECT -> {"Back"}
      [] s = STATE_SETTINGS -> {"Back"}
      [] s = STATE_CUSTOM_PUZZLE -> {"Select Image", "Back"}
      [] s = STATE_GALLERY -> {"Back"}
      [] s = STATE_PAUSED -> {"Resume", "Restart", "Main Menu"}
      [] OTHER -> {}

CellCentre(n, cell) ==
    <<CellX(n, cell[2]) + TileSize \div 2, CellY(n, cell[1]) + TileSize \div 2>>

PausePos == <<pause_rect.x + pause_rect.w \div 2, pause_rect.y + pause_rect.h \div 2>>

\* The events that can reach the screen of state s: window close, a
\* click on one of its buttons, on the pause button, or (while the
\* counter is below MaxMoves) on a cell of the board gb.
EventsIn(s, gb, count) ==
    {QuitEvent}
    \cup {Click(b, 0, <<0, 0>>) : b \in Buttons(s)}
    \cup (IF s = STATE_LEVEL_SELECT
          THEN {Click("Level", n, <<0, 0>>) : n \in PlayedRows} ELSE {})
    \cup (IF s = STATE_CUSTOM_PUZZLE
          THEN {Click("Start Puzzle", n, <<0, 0>>) : n \in PlayedRows} ELSE {})
    \cup (IF s \in {STATE_PLAYING, STATE_PAUSED}
          THEN {Click("", 0, PausePos)} ELSE {})
    \cup (IF s = STATE_PLAYING /\ count < MaxMoves
          THEN {Click("", 0, CellCentre(gb.rows, cell)) :
                    cell \in Cells(gb.rows, gb.rows)}
          ELSE {})

\* The event queues handed to a pass: empty, one event, or a click
\* followed by the window close.
EventQueues(s, gb, count) ==
    {<<>>}
    \cup {<<e>> : e \in EventsIn(s, gb, count)}
    \cup {<<e, QuitEvent>> : e \in EventsIn(s, gb, count) \ {QuitEvent}}

\* "for event in pygame.event.get()": the outcomes of dispatching the
\* queue es to each g of S; an exception ends the loop over the events.
RECURSIVE dispatch_all(_, _)
dispatch_all(S, es) ==
    IF es = <<>> THEN S
    ELSE dispatch_all(UNION {IF g.raised THEN {g} ELSE dispatch(g, Head(es)) : g \in S},
                      Tail(es))

\* What call keeps of a queue: type and button of each event.
Kinds(es) == [i \in 1 .. Len(es) |-> <<es[i].type, es[i].on>>]

Globals ==
    [game_state |-> game_state, target_state |-> target_state,
     in_transition |-> in_transition, transition_alpha |-> transition_alpha,
     elapsed |-> elapsed, selected_level |-> selected_level, board |-> board,
     hud_move_count |-> hud_move_count, star_rating |-> star_rating,
     progress |-> progress, disk |-> disk, image_loaded |-> image_loaded,
     status_message |-> status_message, mixer_volume |-> mixer_volume,
     cues |-> cues, crops |-> crops, running |-> TRUE, raised |-> FALSE]

\* One pass of "while running": dt = clock.tick(FPS), the events, the fade
\* step, rendering.  An exception ends the process at once.
Frame(es, dt) ==
    /\ pc = "loop"
    /\ LET g0 == [Globals EXCEPT !.cues = <<>>, !.crops = <<>>,
                                 !.elapsed = IF in_transition THEN @ + dt ELSE 0]
       IN  \E g1 \in dispatch_all({g0}, es) :
              LET g2 == IF g1.raised THEN g1 ELSE fade(g1)
                  g3 == IF g2.raised THEN g2 ELSE render(g2)
              IN  /\ game_state' = g3.game_state
                  /\ target_state' = g3.target_state
                  /\ in_transition' = g3.in_transition
                  /\ transition_alpha' = g3.transition_alpha
                  /\ elapsed' = IF g3.in_transition THEN g3.elapsed ELSE 0
                  /\ selected_level' = g3.selected_level
                  /\ board' = g3.board
                  /\ hud_move_count' = g3.hud_move_count
                  /\ star_rating' = g3.star_rating
                  /\ progress' = g3.progress
                  /\ disk' = g3.disk
                  /\ image_loaded' = g3.image_loaded
                  /\ status_message' = g3.status_message
                  /\ mixer_volume' = g3.mixer_volume
                  /\ cues' = g3.cues
                  /\ crops' = g3.crops
                  /\ pc' = IF g3.raised THEN "crashed"
                           ELSE IF g3.running THEN "loop" ELSE "exit"
                  /\ call' = [op |-> "frame", args |-> <<Kinds(es), dt>>,
                              raised |-> g3.raised,
                              result |-> IF g3.running THEN "None" ELSE "quit"]
    /\ UNCHANGED <<pre, exit_saves>>
    /\ UNCHANGED bvars
    /\ UNCHANGED galvars

\* After the loop: save_progress(progress); pygame.quit(); sys.exit().
Exit ==
    /\ pc = "exit"
    /\ progress' = save_progress(progress)
    /\ disk' = File(progress')
    /\ exit_saves' = exit_saves + 1
    /\ pc' = "done"
    /\ call' = [op |-> "exit", args |-> <<>>, raised |-> FALSE, result |-> "None"]
    /\ UNCHANGED <<game_state, target_state, in_transition, transition_alpha,
                   elapsed, selected_level, board, hud_move_count, star_rating,
                   image_loaded, status_message, mixer_volume, cues, crops,
                   pre>>
    /\ UNCHANGED bvars
    /\ UNCHANGED galvars

NextGame ==
    \/ \E es \in EventQueues(game_state, board, hud_move_count) :
          \E dt \in FrameTimes : Frame(es, dt)
    \/ Exit

SpecGame == Init /\ [][NextGame]_vars

(***************************************************************************)
(* The progress store over several runs of the program.  The play that     *)
(* leads to a solved board is summarised by its result: the level and the  *)
(* value of hud.move_count when the solved screen is first rendered.       *)
(***************************************************************************)
\* Levels solved and the move counts they are solved with.  A solve takes
\* an even number of moves: the 80 moves of the constructor leave the
\* empty slot an even number of moves from its corner.
SolveRows == {3, 4}
SolveCounts == {18, 22}

\* A pass of the loop that renders, in state Playing, the solved board of
\* LevelInfo n with hud.move_count = count.
SolvedPass(n, count) ==
    /\ pc = "loop"
    /\ LET g == [Globals EXCEPT !.game_state = STATE_PLAYING,
                                !.selected_level = LevelInfo(n),
                                !.board = GameBoard(n, _create_tiles(n, n)),
                                !.hud_move_count = count,
                                !.cues = <<>>, !.crops = <<>>]
           g1 == render(g)
       IN  /\ game_state' = g1.game_state
           /\ selected_level' = g1.selected_level
           /\ board' = g1.board
           /\ hud_move_count' = g1.hud_move_count
           /\ star_rating' = g1.star_rating
           /\ progress' = g1.progress
           /\ cues' = g1.cues
           /\ crops' = g1.crops
    /\ call' = [op |-> "solved", args |-> <<n, count>>, raised |-> FALSE,
                result |-> "None"]
    /\ UNCHANGED <<pc, target_state, in_transition, transition_alpha, elapsed,
                   disk, image_loaded, status_message, mixer_volume,
                   exit_saves, pre>>
    /\ UNCHANGED bvars
    /\ UNCHANGED galvars

\* A pass of the loop in which the settings screen calls toggle_mute().
MutePass ==
    /\ pc = "loop"
    /\ LET g == toggle_mute(Globals)
       IN  /\ progress' = g.progress
           /\ disk' = g.disk
           /\ mixer_volume' = g.mixer_volume
    /\ call' = [op |-> "toggle_mute", args |-> <<>>, raised |-> FALSE,
                result |-> "None"]
    /\ UNCHANGED <<pc, game_state, target_state, in_transition,
                   transition_alpha, elapsed, selected_level, board,
                   hud_move_count, star_rating, image_loaded,
                   status_message, cues, crops,
                   exit_saves, pre>>
    /\ UNCHANGED bvars
    /\ UNCHANGED galvars

\* The best move count that data holds for a size-key: the entry of the
\* nested map when there is one, else the flat key (what save_progress
\* writes into the flat key).
FlatKey(size_key) ==
    CASE size_key = "3x3" -> "best_3x3"
      [] size_key = "4x4" -> "best_4x4"
      [] size_key = "5x5" -> "best_5x5"

SizeKeys == {"3x3", "4x4", "5x5"}

BestMoves(data, size_key) ==
    IF HasKey(data, "best_moves") /\ HasKey(data["best_moves"], size_key)
    THEN data["best_moves"][size_key]
    ELSE Get(data, FlatKey(size_key), None)

BestStars(data, size_key) == Get(Get(data, "best_stars", EmptyDict), size_key, 0)

\* The program ends: the next start finds only the file.  pre keeps the
\* best move counts that the final save wrote.
Launch ==
    /\ pc = "done"
    /\ pc' = "loop"
    /\ game_state' = STATE_MENU
    /\ target_state' = NoTarget
    /\ in_transition' = FALSE
    /\ transition_alpha' = 255
    /\ elapsed' = 0
    /\ selected_level' = NoLevel
    /\ board' = NoBoard
    /\ hud_move_count' = 0
    /\ star_rating' = 0
    /\ progress' = load_progress(disk)
    /\ disk' = _ensure_file(disk)
    /\ image_loaded' = FALSE
    /\ status_message' = MSG_PROMPT
    /\ mixer_volume' = startup_volume(load_progress(disk))
    /\ cues' = <<>>
    /\ crops' = <<>>
    /\ exit_saves' = 0
    /\ call' = [op |-> "launch", args |-> <<>>, raised |-> FALSE, result |-> "None"]
    /\ pre' = [numbers |-> NoTiles, empty_pos |-> <<0, 0>>,
               saved |-> [k \in SizeKeys |-> BestMoves(disk.data, k)]]
    /\ UNCHANGED bvars
    /\ UNCHANGED galvars

NextStore ==
    \/ \E n \in SolveRows : \E count \in SolveCounts : SolvedPass(n, count)
    \/ MutePass
    \/ \E dt \in FrameTimes : Frame(<<QuitEvent>>, dt)
    \/ Exit
    \/ Launch

SpecStore == Init /\ [][NextStore]_vars

(***************************************************************************)
(* The calls of game/save.py and of the settings callbacks on any file the *)
(* program can find: none, unparsable text, the flat keys, the nested      *)
(* maps.  pre keeps the file as the call found it, and how far a chain     *)
(* load, save, load has come (chain) from the record its first load        *)
(* returned (first).                                                       *)
(***************************************************************************)
Volumes == {0, 100}

\* A dict from a sequence of <<key, value>> pairs.
RECURSIVE DictOf(_)
DictOf(pairs) ==
    IF pairs = <<>> THEN EmptyDict
    ELSE Put(DictOf(Tail(pairs)), Head(pairs)[1], Head(pairs)[2])

FlatScores == DictOf(<<<<"best_3x3", 18>>, <<"best_4x4", None>>,
                       <<"best_5x5", None>>, <<"unlocked", TRUE>>>>)

NestedScores == DictOf(<<<<"best_moves", DictOf(<<<<"3x3", 18>>>>)>>,
                         <<"best_stars", DictOf(<<<<"3x3", 3>>>>)>>,
                         <<"volume", 100>>, <<"muted", TRUE>>>>)

MixedScores == DictOf(<<<<"best_moves", DictOf(<<<<"4x4", 22>>>>)>>,
                        <<"best_3x3", 18>>, <<"muted", FALSE>>>>)

FileContents ==
    {NoFile, Garbage, File(EmptyDict), File(DefaultData), File(FlatScores),
     File(NestedScores), File(MixedScores)}

NoChain == [file |-> NoFile, first |-> EmptyDict, chain |-> 0]

Chain == IF "chain" \in DOMAIN pre THEN pre.chain ELSE 0

\* The calls below touch the file and the record only.
OnlyStore ==
    /\ UNCHANGED <<pc, game_state, target_state, in_transition,
                   transition_alpha, elapsed, selected_level, board,
                   hud_move_count, star_rating, image_loaded,
                   status_message, cues, crops,
                   exit_saves>>
    /\ UNCHANGED bvars
    /\ UNCHANGED galvars

\* The file is replaced from outside while the program is not running.
Install(content) ==
    /\ disk' = content
    /\ call' = [op |-> "install", args |-> <<>>, raised |-> FALSE,
                result |-> "None"]
    /\ pre' = [NoChain EXCEPT !.file = disk]
    /\ UNCHANGED <<progress, mixer_volume>>
    /\ OnlyStore

\* progress = load_progress()
LoadProgress ==
    /\ disk' = _ensure_file(disk)
    /\ progress' = IF load_raises(disk) THEN progress ELSE load_progress(disk)
    /\ call' = [op |-> "load_progress", args |-> <<>>,
                raised |-> load_raises(disk), result |-> "None"]
    /\ pre' = IF load_raises(disk) THEN [NoChain EXCEPT !.file = disk]
              ELSE IF Chain = 2
              THEN [file |-> disk, first |-> pre.first, chain |-> 3]
              ELSE [file |-> disk, first |-> progress', chain |-> 1]
    /\ UNCHANGED mixer_volume
    /\ OnlyStore

\* save_progress(progress)
SaveProgress ==
    /\ progress' = save_progress(progress)
    /\ disk' = File(progress')
    /\ call' = [op |-> "save_progress", args |-> <<>>, raised |-> FALSE,
                result |-> "None"]
    /\ pre' = IF Chain = 1 /\ call.op = "load_progress"
              THEN [file |-> disk, first |-> pre.first, chain |-> 2]
              ELSE [NoChain EXCEPT !.file = disk]
    /\ UNCHANGED mixer_volume
    /\ OnlyStore

SetVolumeCall(level) ==
    /\ LET g == set_volume_callback(Globals, level)
       IN  /\ progress' = g.progress /\ disk' = g.disk
           /\ mixer_volume' = g.mixer_volume
    /\ call' = [op |-> "set_volume_callback", args |-> <<level>>,
                raised |-> FALSE, result |-> "None"]
    /\ pre' = [NoChain EXCEPT !.file = disk]
    /\ OnlyStore

ToggleMuteCall ==
    /\ LET g == toggle_mute(Globals)
       IN  /\ progress' = g.progress /\ disk' = g.disk
           /\ mixer_volume' = g.mixer_volume
    /\ call' = [op |-> "toggle_mute", args |-> <<>>, raised |-> FALSE,
                result |-> "None"]
    /\ pre' = [NoChain EXCEPT !.file = disk]
    /\ OnlyStore

\* The record update of a solve, without the rest of the pass.
RecordSolveCall(n, count) ==
    /\ progress' = record_solve(progress, n, count, compute_rating(n, count))
    /\ call' = [op |-> "record_solve", args |-> <<n, count>>,
                raised |-> FALSE, result |-> "None"]
    /\ pre' = [NoChain EXCEPT !.file = disk]
    /\ UNCHANGED <<disk, mixer_volume>>
    /\ OnlyStore

NextSave ==
    \/ \E content \in FileContents : Install(content)
    \/ LoadProgress
    \/ SaveProgress
    \/ \E level \in Volumes : SetVolumeCall(level)
    \/ ToggleMuteCall
    \/ \E count \in SolveCounts : RecordSolveCall(3, count)

SpecSave == Init /\ [][NextSave]_vars

(***************************************************************************)
(* The audio settings over several runs of the program: the start-up of    *)
(* main.py on the file it finds, and the two callbacks of the settings     *)
(* screen while the program runs.                                          *)
(***************************************************************************)
\* main.py 61-66: progress = load_progress(), then the stored setting is
\* applied.  An unparsable file ends the start-up with the exception.
StartUp ==
    /\ disk' = _ensure_file(disk)
    /\ IF load_raises(disk)
       THEN /\ pc' = "crashed"
            /\ UNCHANGED <<progress, mixer_volume>>
       ELSE /\ pc' = "loop"
            /\ progress' = load_progress(disk)
            /\ mixer_volume' = startup_volume(progress')
    /\ call' = [op |-> "startup", args |-> <<>>, raised |-> load_raises(disk),
                result |-> "None"]
    /\ pre' = [NoChain EXCEPT !.file = disk]
    /\ UNCHANGED <<game_state, target_state, in_transition, transition_alpha,
                   elapsed, selected_level, board, hud_move_count, star_rating,
                   image_loaded, status_message, cues, crops, exit_saves>>
    /\ UNCHANGED bvars
    /\ UNCHANGED galvars

\* The slider of the settings screen reports level while the program runs.
VolumeChanged(level) == pc = "loop" /\ SetVolumeCall(level)

\* The mute box of the settings screen is clicked while the program runs.
MuteClicked == pc = "loop" /\ ToggleMuteCall

NextAudio ==
    \/ \E content \in FileContents : Install(content)
    \/ StartUp
    \/ \E level \in Volumes : VolumeChanged(level)
    \/ MuteClicked

SpecAudio == Init /\ [][NextAudio]_vars

(***************************************************************************)
(* The calls of class Gallery on both instances.  pre keeps the directory  *)
(* as the call found it.                                                   *)
(***************************************************************************)
OnlyGallery ==
    /\ UNCHANGED gvars
    /\ UNCHANGED bvars

SetGal(gal) ==
    /\ gallery_data' = gal.data
    /\ gallery_json' = gal.json
    /\ image_files' = gal.files

SaveMemory(i, filename) ==
    /\ Fresh(Gal, filename)
    /\ SetGal(save_memory(Gal, i, filename))
    /\ call' = [op |-> "save_memory", args |-> <<i, filename>>,
                raised |-> FALSE, result |-> filename]
    /\ pre' = Gal
    /\ OnlyGallery

DeleteMemory(i, filename, os_error) ==
    /\ LET out == delete_memory(Gal, i, filename, os_error)
       IN  /\ SetGal(out.gal)
           /\ call' = [op |-> "delete_memory",
                       args |-> <<i, filename, os_error>>,
                       raised |-> FALSE, result |-> out.result]
    /\ pre' = Gal
    /\ OnlyGallery

\* An image file disappears without the program's doing.
RemoveOutside(filename) ==
    /\ filename \in image_files
    /\ image_files' = image_files \ {filename}
    /\ call' = [op |-> "remove_outside", args |-> <<filename>>,
                raised |-> FALSE, result |-> "None"]
    /\ pre' = Gal
    /\ UNCHANGED <<gallery_data, gallery_json>>
    /\ OnlyGallery

\* The program is started again: both instances are built anew.
BuildGalleries ==
    /\ SetGal(Gallery__init__(Gallery__init__(Gal, "gallery_screen"), "gallery"))
    /\ call' = [op |-> "Gallery", args |-> <<>>, raised |-> FALSE,
                result |-> "None"]
    /\ pre' = Gal
    /\ OnlyGallery

NextGallery ==
    \/ \E i \in Instances : \E f \in Filenames : SaveMemory(i, f)
    \/ \E i \in Instances : \E f \in Filenames : \E os_error \in BOOLEAN :
          DeleteMemory(i, f, os_error)
    \/ \E f \in Filenames : RemoveOutside(f)
    \/ BuildGalleries

SpecGallery == Init /\ [][NextGallery]_vars

\* The calls main.py makes: save_memory on gallery (main.py 424),
\* delete_memory on gallery_screen.gallery (gallery.py 184), and a new start
\* of the program.
NextTwoGalleries ==
    \/ \E f \in Filenames : SaveMemory("gallery", f)
    \/ \E f \in Filenames : \E os_error \in BOOLEAN :
          DeleteMemory("gallery_screen", f, os_error)
    \/ \E f \in Filenames : RemoveOutside(f)
    \/ BuildGalleries

SpecTwoGalleries == Init /\ [][NextTwoGalleries]_vars

(***************************************************************************)
(* Vocabulary of the properties: layouts are cell -> number functions, a   *)
(* legal move slides a tile that shares an edge with the empty slot into   *)
(* it.                                                                     *)
(***************************************************************************)
Abs(i) == IF i < 0 THEN -i ELSE i

\* The two cells share an edge: no diagonal, no wraparound.
Adjacent(a, b) == Abs(a[1] - b[1]) + Abs(a[2] - b[2]) = 1

\* Row-major 1 .. N-1 with 0 in the last cell.
SolvedLayout(R, C) == [cell \in Cells(R, C) |-> (cell[1] * C + cell[2] + 1) % (R * C)]

\* Layout nums with the contents of cells a and b exchanged.
Exchange(nums, a, b) ==
    [cell \in DOMAIN nums |->
        IF cell = a THEN nums[b] ELSE IF cell = b THEN nums[a] ELSE nums[cell]]

\* The layouts one legal move away from layout nums.
Slides(nums) ==
    {Exchange(nums, pair[1], pair[2]) :
        pair \in {q \in (DOMAIN nums) \X (DOMAIN nums) :
                    nums[q[1]] = 0 /\ Adjacent(q[1], q[2])}}

\* The layouts exactly n legal moves away from a layout of S (n moves are
\* n \div 2 moves followed by the remaining ones).
RECURSIVE SlidesExactly(_, _)
SlidesExactly(S, n) ==
    IF n <= 0 \/ Cardinality(S) = 0 THEN S
    ELSE IF n = 1 THEN UNION {Slides(nums) : nums \in S}
    ELSE SlidesExactly(SlidesExactly(S, n \div 2), n - n \div 2)

\* The layouts with a legal move into nums: such a layout differs from nums
\* by an exchange of the 0 with one other cell.
SlidesInto(nums) ==
    {m \in {Exchange(nums, pair[1], pair[2]) :
                pair \in {q \in (DOMAIN nums) \X (DOMAIN nums) :
                            nums[q[1]] = 0 /\ q[1] # q[2]}} :
        nums \in Slides(m)}

\* Seen grown backwards along legal moves to the fixed point: the layouts
\* from which a layout of Seen is reachable by a finite sequence of legal moves.
RECURSIVE CanReach(_, _)
CanReach(Seen, Frontier) ==
    LET more == UNION {SlidesInto(nums) : nums \in Frontier} \ Seen
    IN  IF more = {} THEN Seen ELSE CanReach(Seen \cup more, more)

SolvableLayouts ==
    [d \in Dims |-> CanReach({SolvedLayout(d[1], d[2])}, {SolvedLayout(d[1], d[2])})]

\* The grid cells whose pixel square holds point p.
CellsAt(R, C, p) ==
    {cell \in Cells(R, C) :
        /\ CellX(C, cell[2]) <= p[1] /\ p[1] < CellX(C, cell[2]) + TileSize
        /\ CellY(R, cell[1]) <= p[2] /\ p[2] < CellY(R, cell[1]) + TileSize}

\* The cells a click at p slides: those that held a tile adjacent to the
\* empty slot when the call began.
MovableAt(p) ==
    {cell \in CellsAt(rows, cols, p) :
        pre.numbers[cell] # 0 /\ Adjacent(cell, pre.empty_pos)}

Unchanged == Numbers(tiles) = pre.numbers /\ empty_pos = pre.empty_pos

(***************************************************************************)
(* C1: from every board reachable by construction (rows, cols >= 2),       *)
(* shuffle(n) and click_at calls, the solved layout is reachable by a      *)
(* finite sequence of legal moves.                                         *)
(***************************************************************************)
C1_Solvable ==
    (alive /\ rows >= 2 /\ cols >= 2) =>
        Numbers(tiles) \in SolvableLayouts[<<rows, cols>>]

\* A 2x3 board that a click has just changed and that is not solved.
C1_Witness ==
    /\ alive /\ rows = 2 /\ cols = 3
    /\ call.op = "click_at"
    /\ Numbers(tiles) # pre.numbers
    /\ Numbers(tiles) # SolvedLayout(rows, cols)

(***************************************************************************)
(* C2: after construction and any shuffle and click_at calls the cells     *)
(* hold exactly the numbers 0 .. rows*cols-1, each once.                   *)
(***************************************************************************)
C2_Permutation ==
    alive =>
        /\ DOMAIN tiles = Cells(rows, cols)
        /\ \A n \in 0 .. rows * cols - 1 :
              Cardinality({cell \in Cells(rows, cols) : tiles[cell].number = n}) = 1

C2_Witness ==
    /\ alive /\ rows = 2 /\ cols = 3
    /\ call.op = "shuffle" /\ call.args[1] = 2
    /\ Numbers(tiles) # pre.numbers

(***************************************************************************)
(* C3: after construction and every completed shuffle or click_at call,    *)
(* empty_pos is the cell of the unique tile numbered 0.                    *)
(***************************************************************************)
C3_EmptyPos ==
    alive => {cell \in Cells(rows, cols) : tiles[cell].number = 0} = {empty_pos}

C3_Witness ==
    /\ alive /\ call.op = "click_at"
    /\ empty_pos # pre.empty_pos
    /\ empty_pos # <<rows - 1, cols - 1>>

(***************************************************************************)
(* C4: click_at on a non-empty tile whose cell shares an edge with the     *)
(* empty slot exchanges the contents of that cell and the empty cell, sets *)
(* empty_pos to the clicked cell and leaves every other cell unchanged.    *)
(***************************************************************************)
C4_LegalClick ==
    (call.op = "click_at") =>
        \A cell \in MovableAt(call.args) :
            /\ Numbers(tiles) = Exchange(pre.numbers, cell, pre.empty_pos)
            /\ empty_pos = cell

C4_Witness ==
    /\ call.op = "click_at"
    /\ rows = 2 /\ cols = 3
    /\ MovableAt(call.args) # {}
    /\ pre.numbers # SolvedLayout(rows, cols)
    /\ pre.empty_pos # <<rows - 1, cols - 1>>

(***************************************************************************)
(* C5: click_at anywhere else (a non-adjacent tile, the empty slot, a      *)
(* margin, a point outside the board) raises no error and changes neither  *)
(* a cell's number nor empty_pos.                                          *)
(***************************************************************************)
C5_IllegalClick ==
    (call.op = "click_at" /\ MovableAt(call.args) = {}) =>
        ~call.raised /\ Unchanged

\* A click inside a non-empty tile that is not adjacent to the empty slot.
C5_Witness ==
    /\ call.op = "click_at"
    /\ \E cell \in CellsAt(rows, cols, call.args) :
          pre.numbers[cell] # 0 /\ ~Adjacent(cell, pre.empty_pos)

\* A click on the empty slot itself, on a margin, and outside the board.
C5_WitnessEmptySlot ==
    /\ call.op = "click_at"
    /\ pre.empty_pos \in CellsAt(rows, cols, call.args)

C5_WitnessMargin ==
    /\ call.op = "click_at"
    /\ call.args[1] = CellX(cols, 0) + TileSize
    /\ CellsAt(rows, cols, call.args) = {}

(***************************************************************************)
(* C6: immediately after construct(rows, cols, tile_size, margin) returns, *)
(* cell (r, c) holds r*cols + c + 1, the last cell holds 0 and empty_pos   *)
(* is the bottom-right cell.                                               *)
(***************************************************************************)
C6_SolvedAfterConstruct ==
    (call.op = "construct" /\ ~call.raised) =>
        /\ Numbers(tiles) = SolvedLayout(rows, cols)
        /\ empty_pos = <<rows - 1, cols - 1>>

\* The layouts exactly 80 legal moves away from the solved layout.
LayoutsAfter80 == [d \in Dims |-> SlidesExactly({SolvedLayout(d[1], d[2])}, 80)]

\* C6 as the code has it: the constructor ends with shuffle(80), so the board
\* it returns is the solved layout with 80 legal moves applied, and
\* empty_pos is the cell holding 0.
C6_ShuffledAfterConstruct ==
    (call.op = "construct" /\ ~call.raised) =>
        /\ Numbers(tiles) \in LayoutsAfter80[<<rows, cols>>]
        /\ tiles[empty_pos].number = 0

\* A constructor call that returned a 2x3 board that is not solved.
C6_Witness ==
    /\ call.op = "construct" /\ ~call.raised
    /\ rows = 2 /\ cols = 3
    /\ Numbers(tiles) # SolvedLayout(rows, cols)
    /\ empty_pos # <<rows - 1, cols - 1>>

(***************************************************************************)
(* C7: construction with rows < 2 or cols < 2 is rejected with an error    *)
(* and produces no board; with rows >= 2 and cols >= 2 it never fails.     *)
(***************************************************************************)
C7_RejectsSmallDims ==
    (call.op = "construct") =>
        /\ call.raised <=> (call.args[1] < 2 \/ call.args[2] < 2)
        /\ call.raised => ~alive

(***************************************************************************)
(* C8: is_solved() returns true iff every cell (r, c) holds r*cols + c + 1 *)
(* except the last, which holds 0; it changes no board state.              *)
(***************************************************************************)
C8_IsSolved ==
    (call.op = "is_solved") =>
        /\ call.result <=> (Numbers(tiles) = SolvedLayout(rows, cols))
        /\ Unchanged

C8_Witness ==
    /\ call.op = "is_solved" /\ call.result
    /\ rows = 2 /\ cols = 3

C8_WitnessUnsolved ==
    /\ call.op = "is_solved" /\ ~call.result
    /\ rows = 2 /\ cols = 3
    /\ empty_pos = <<rows - 1, cols - 1>>

(***************************************************************************)
(* C9: shuffle(n) performs exactly n steps, each swapping the empty slot   *)
(* with one of its legal neighbours: the resulting board is exactly n      *)
(* legal moves from the prior board, and shuffle(0) changes nothing.       *)
(***************************************************************************)
C9_Shuffle ==
    (call.op = "shuffle") =>
        /\ ~call.raised
        /\ Numbers(tiles) \in SlidesExactly({pre.numbers}, call.args[1])
        /\ tiles[empty_pos].number = 0
        /\ call.args[1] = 0 => Unchanged

C9_Witness ==
    /\ call.op = "shuffle" /\ call.args[1] = 2
    /\ rows = 2 /\ cols = 3
    /\ Numbers(tiles) # pre.numbers

C9_WitnessZero ==
    /\ call.op = "shuffle" /\ call.args[1] = 0
    /\ Numbers(tiles) # SolvedLayout(rows, cols)

(***************************************************************************)
(* C10: compute_rating(edge, moves) is 3 when moves <= the three-star      *)
(* ceiling of edge, else 2 when moves <= the two-star ceiling, else 1;     *)
(* ceilings (20,30) for 3, (40,60) for 4, (80,120) for 5, none for any     *)
(* other edge (always 3); the result is in {1,2,3}; compute_rating(3,20)   *)
(* = 3, (3,21) = 2, (3,31) = 1.                                            *)
(***************************************************************************)
KnownEdges == {3, 4, 5}
ThreeStarCeiling(edge) == CASE edge = 3 -> 20 [] edge = 4 -> 40 [] edge = 5 -> 80
TwoStarCeiling(edge) == CASE edge = 3 -> 30 [] edge = 4 -> 60 [] edge = 5 -> 120

C10_Rating ==
    (call.op = "compute_rating") =>
        LET edge == call.args[1]
            moves == call.args[2]
            r == call.result
        IN  /\ r \in {1, 2, 3}
            /\ edge \notin KnownEdges => r = 3
            /\ edge \in KnownEdges =>
                  /\ r = 3 <=> moves <= ThreeStarCeiling(edge)
                  /\ r = 2 <=> (moves > ThreeStarCeiling(edge)
                                /\ moves <= TwoStarCeiling(edge))
                  /\ r = 1 <=> moves > TwoStarCeiling(edge)
            /\ (edge = 3 /\ moves = 20) => r = 3
            /\ (edge = 3 /\ moves = 21) => r = 2
            /\ (edge = 3 /\ moves = 31) => r = 1

C10_Witness ==
    /\ call.op = "compute_rating"
    /\ call.args = <<3, 21>>
    /\ call.result = 2

C10_WitnessUnknownEdge ==
    /\ call.op = "compute_rating"
    /\ call.args = <<7, MaxMoveCount>>
    /\ call.result = 3

(***************************************************************************)
(* C11: within one run of the program the best move count held for a       *)
(* size-key never increases and the best stars never decrease, whatever    *)
(* is solved and whatever else the run does.                               *)
(***************************************************************************)
C11_MonotoneInRun ==
    [][(pc = "loop" /\ pc' = "loop") =>
          \A k \in SizeKeys :
             /\ BestMoves(progress, k) # None =>
                   /\ BestMoves(progress', k) # None
                   /\ BestMoves(progress', k) <= BestMoves(progress, k)
             /\ BestStars(progress', k) >= BestStars(progress, k)]_vars

(***************************************************************************)
(* C12: the personal best survives a restart: when the final save of a     *)
(* run wrote m for a size-key, then in the next run the best held in       *)
(* memory and the best in the file are present and <= m at all times.      *)
(***************************************************************************)
C12_BestSurvivesRestart ==
    "saved" \in DOMAIN pre =>
       \A k \in SizeKeys :
          pre.saved[k] # None =>
             /\ BestMoves(progress, k) # None
             /\ BestMoves(progress, k) <= pre.saved[k]
             /\ BestMoves(disk.data, k) # None
             /\ BestMoves(disk.data, k) <= pre.saved[k]

(***************************************************************************)
(* C13: recording a solve is idempotent: for every store the program       *)
(* reaches and every (size-key, move count, rating), the record update     *)
(* applied twice gives the store it gives applied once.                    *)
(***************************************************************************)
C13_Idempotent ==
    \A n \in SolveRows : \A count \in SolveCounts : \A rating \in 0 .. 3 :
       LET once == record_solve(progress, n, count, rating)
       IN  record_solve(once, n, count, rating) = once

\* A solve has just been recorded over an earlier, worse one.
C13_Witness ==
    /\ call.op = "solved"
    /\ call.args = <<3, 18>>
    /\ HasKey(progress, "best_moves")
    /\ progress["best_moves"]["3x3"] = 18
    /\ BestStars(progress, "3x3") = 3
    /\ BestMoves(progress, "4x4") = 22

(***************************************************************************)
(* Claims about the frame loop.                                            *)
(***************************************************************************)
\* How often the cue name was requested in the last pass.
CueCount(name) == Cardinality({i \in 1 .. Len(cues) : cues[i] = name})

\* board.is_solved() of the global board (FALSE while there is none).
BoardSolved == board.exists /\ is_solved(board.rows, board.rows, board.tiles)

\* A pass of the frame loop that ran to its end.
CompletedPass == pc = "loop" /\ call'.op = "frame" /\ ~call'.raised

\* The pass dispatched an event of this type on this button.
Dispatched(type, on) ==
    \E i \in 1 .. Len(call.args[1]) : call.args[1][i] = <<type, on>>

(***************************************************************************)
(* C14: the solved event is edge-triggered.  A pass over which is_solved() *)
(* changes from false to true requests the 'complete' cue exactly once,    *)
(* and a pass over which the board is not newly solved (in particular one  *)
(* rendered while it stays solved) requests no 'complete' cue.             *)
(***************************************************************************)
C14_CompleteOnEdge ==
    [][CompletedPass =>
          IF ~BoardSolved /\ BoardSolved'
          THEN CueCount("complete")' = 1
          ELSE CueCount("complete")' = 0]_vars

\* The cues of the last pass without the 'complete' cue of the renderer.
ClickCues == SelectSeq(cues, LAMBDA c : c # "complete")

(***************************************************************************)
(* C15: a pass that handles a left click in state Playing raises the move  *)
(* counter by exactly 1 and requests the cues 'move' and 'place' if the    *)
(* click changed empty_pos; otherwise the counter is unchanged and the     *)
(* click requests no cue.                                                  *)
(***************************************************************************)
C15_ClickCounts ==
    [][(pc = "loop" /\ game_state = STATE_PLAYING /\ call'.op = "frame"
          /\ Dispatched("MOUSEBUTTONDOWN", "")') =>
          IF board'.empty_pos # board.empty_pos
          THEN hud_move_count' = hud_move_count + 1
               /\ ClickCues' = <<"move", "place">>
          ELSE hud_move_count' = hud_move_count /\ ClickCues' = <<>>]_vars

C15_Witness ==
    /\ call.op = "frame" /\ Dispatched("MOUSEBUTTONDOWN", "")
    /\ game_state = STATE_PLAYING
    /\ hud_move_count = 2 /\ cues = <<"move", "place">>

\* Milliseconds since the pending request, as the pass now ending measured
\* them, had no new request been made.
SinceRequest == elapsed + call'.args[2]

\* The pass now ending called switch_state (it restarted the timer).
Requested == in_transition' /\ elapsed' = 0

\* The pass now ending dispatched a click that can start a game.
Started ==
    Dispatched("MOUSEBUTTONDOWN", "Level")'
       \/ Dispatched("MOUSEBUTTONDOWN", "Start Puzzle")'

(***************************************************************************)
(* C16: after switch_state(s), game_state keeps its previous value on      *)
(* every pass until the time since the request reaches the fade duration;  *)
(* on the first pass where it has, game_state becomes s and in_transition  *)
(* false; during the ramp the overlay alpha never decreases.               *)
(***************************************************************************)
C16_FadeDefers ==
    [][(CompletedPass /\ in_transition) =>
          IF SinceRequest < transition_duration
          THEN /\ game_state' = game_state
               /\ in_transition'
               /\ transition_alpha' >= transition_alpha
          ELSE game_state' = target_state /\ ~in_transition']_vars

(***************************************************************************)
(* What the fade does keep, for the latest request: a pass that calls      *)
(* switch_state again restarts the ramp (alpha 0, timer 0, new target,     *)
(* game_state untouched); without a new request the fade keeps its target, *)
(* alpha does not decrease and game_state is left alone (only a game start *)
(* sets it, to Playing, and the ramp goes on) until the time since the     *)
(* request reaches the duration, and on that pass game_state becomes the   *)
(* target and in_transition false.                                         *)
(***************************************************************************)
FadeDefersLatest ==
    [][(CompletedPass /\ in_transition) =>
          IF Requested
          THEN /\ transition_alpha' = 0
               /\ target_state' \in States
               /\ game_state' = game_state
          ELSE IF SinceRequest < transition_duration
          THEN /\ in_transition' /\ elapsed' = SinceRequest
               /\ target_state' = target_state
               /\ transition_alpha' >= transition_alpha
               /\ \/ game_state' = game_state
                  \/ Started /\ game_state' = STATE_PLAYING
          ELSE /\ ~in_transition'
               /\ game_state' = target_state
               /\ target_state' = NoTarget]_vars

\* A fade Menu -> LevelSelect has completed.
FadeCompleted ==
    /\ call.op = "frame" /\ ~call.raised
    /\ game_state = STATE_LEVEL_SELECT /\ ~in_transition
    /\ target_state = NoTarget /\ transition_alpha = 0 /\ elapsed = 0

\* A game was started while the fade back to the menu was running.
StartInRamp ==
    /\ game_state = STATE_PLAYING /\ in_transition
    /\ target_state = STATE_MENU /\ elapsed > 0

\* The edges of the specification's transition table.
TransitionTable ==
    {<<STATE_MENU, t>> : t \in {STATE_LEVEL_SELECT, STATE_SETTINGS,
                                STATE_CUSTOM_PUZZLE, STATE_GALLERY}}
    \cup {<<STATE_LEVEL_SELECT, STATE_PLAYING>>, <<STATE_LEVEL_SELECT, STATE_MENU>>,
          <<STATE_PLAYING, STATE_PAUSED>>,
          <<STATE_PAUSED, STATE_PLAYING>>, <<STATE_PAUSED, STATE_MENU>>}
    \cup {<<s, STATE_MENU>> : s \in {STATE_SETTINGS, STATE_CUSTOM_PUZZLE,
                                     STATE_GALLERY}}

(***************************************************************************)
(* C17: every change of game_state follows an edge of the transition       *)
(* table; no other change of game_state occurs in any run.                 *)
(***************************************************************************)
C17_TransitionTable ==
    [][game_state' # game_state =>
          <<game_state, game_state'>> \in TransitionTable]_vars

\* The same with the edge of start_custom_game added: what is left is the
\* fade that a game start overtakes.
TableWithCustomStart ==
    [][game_state' # game_state =>
          <<game_state, game_state'>> \in
              TransitionTable \cup {<<STATE_CUSTOM_PUZZLE, STATE_PLAYING>>}]_vars

(***************************************************************************)
(* C18: Restart chosen in state Paused rebuilds a freshly shuffled board   *)
(* of the selected level's size, resets the move counter to 0 and leads to *)
(* game_state Playing (at once, or as the target of the fade it starts).   *)
(***************************************************************************)
C18_RestartResumes ==
    [][(pc = "loop" /\ game_state = STATE_PAUSED /\ call'.op = "frame"
          /\ Dispatched("MOUSEBUTTONDOWN", "Restart")') =>
          /\ ~call'.raised
          /\ board' \in NewBoards[selected_level.rows]
          /\ hud_move_count' = 0
          /\ game_state' = STATE_PLAYING \/ target_state' = STATE_PLAYING]_vars

\* What Restart does do on a built-in level: new board, counter 0, and the
\* state and the pending fade as they were.
RestartKeepsState ==
    [][(pc = "loop" /\ game_state = STATE_PAUSED /\ call'.op = "frame"
          /\ call'.args[1] = <<<<"MOUSEBUTTONDOWN", "Restart">>>>
          /\ selected_level.kind = "LevelInfo" /\ ~in_transition) =>
          /\ ~call'.raised
          /\ board' \in NewBoards[selected_level.rows]
          /\ hud_move_count' = 0
          /\ game_state' = STATE_PAUSED /\ target_state' = NoTarget]_vars

\* The module globals as they can stand on the screen of state s, used to
\* ask the handlers where that screen can lead: a level and a board while
\* playing or paused, an image loaded in the custom-puzzle screen.
OnScreen(s) ==
    LET in_game == s \in {STATE_PLAYING, STATE_PAUSED}
    IN  [game_state |-> s, target_state |-> NoTarget, in_transition |-> FALSE,
         transition_alpha |-> 0, elapsed |-> 0,
         selected_level |-> IF in_game THEN LevelInfo(3) ELSE NoLevel,
         board |-> IF in_game THEN CHOOSE b \in NewBoards[3] : TRUE ELSE NoBoard,
         hud_move_count |-> 0, star_rating |-> 0,
         progress |-> load_progress(NoFile), disk |-> _ensure_file(NoFile),
         image_loaded |-> TRUE, status_message |-> MSG_PROMPT,
         mixer_volume |-> DefaultVolume, cues |-> <<>>,
         crops |-> <<>>,
         running |-> TRUE, raised |-> FALSE]

\* The states the handlers of screen s set or request for some event.
LeadsTo(s) ==
    UNION {{g.game_state, g.target_state} \ {NoTarget} :
              g \in UNION {dispatch(OnScreen(s), e) :
                              e \in EventsIn(s, OnScreen(s).board, 0)}}

\* The states reachable from those of S by sequences of events.
RECURSIVE ReachableFrom(_)
ReachableFrom(S) ==
    LET T == S \cup UNION {LeadsTo(s) : s \in S}
    IN  IF T = S THEN S ELSE ReachableFrom(T)

(***************************************************************************)
(* C19: the initial state is Menu, and each of the eight states Menu,      *)
(* LevelSelect, Playing, Paused, Settings, CustomPuzzle, Cropping and      *)
(* Gallery is reachable from it by some finite sequence of UI actions.     *)
(***************************************************************************)
C19_AllStatesReachable ==
    call.op = "none" =>
       /\ game_state = STATE_MENU
       /\ States \subseteq ReachableFrom({game_state})

\* No run enters Cropping or requests it.
NeverCropping ==
    game_state # STATE_CROPPING /\ target_state # STATE_CROPPING

\* The other seven states are reachable, Paused being the farthest.
SevenReachable == ReachableFrom({STATE_MENU}) = States \ {STATE_CROPPING}

ReachedPaused == game_state = STATE_PAUSED /\ ~in_transition

ReachedGallery == game_state = STATE_GALLERY /\ ~in_transition

ReachedSettings == game_state = STATE_SETTINGS /\ ~in_transition

ReachedCustomPuzzle == game_state = STATE_CUSTOM_PUZZLE /\ ~in_transition

(***************************************************************************)
(* C20: after a quit signal (the Menu Quit button or a window-close event) *)
(* the frame loop terminates at the end of the current pass, and the       *)
(* progress store is saved exactly once afterwards with the in-memory      *)
(* record, before the process exits.                                       *)
(***************************************************************************)
C20_QuitSavesOnce ==
    /\ (call.op = "frame" /\ call.result = "quit") =>
           pc = "exit" /\ exit_saves = 0
    /\ pc = "done" =>
           exit_saves = 1 /\ disk.exists /\ disk.data = progress

\* The same for passes that no exception cuts short.
QuitSavesOnceUnlessRaised ==
    /\ (call.op = "frame" /\ call.result = "quit" /\ ~call.raised) =>
           pc = "exit" /\ exit_saves = 0
    /\ pc = "done" =>
           exit_saves = 1 /\ disk.exists /\ disk.data = progress

(***************************************************************************)
(* C21: if an unhandled error occurs during a pass of the frame loop, a    *)
(* save of the in-memory progress record is attempted before the error     *)
(* leaves the program, so the bests recorded in that run are in the file.  *)
(***************************************************************************)
C21_SaveOnError ==
    pc = "crashed" =>
       /\ exit_saves = 1
       /\ \A k \in SizeKeys : BestMoves(disk.data, k) = BestMoves(progress, k)

\* A run that ended in an exception with a best in memory and none on disk.
BestLostOnError ==
    /\ pc = "crashed" /\ exit_saves = 0
    /\ BestMoves(progress, "3x3") # None
    /\ BestMoves(disk.data, "3x3") = None

(***************************************************************************)
(* Claims about the progress file.                                         *)
(***************************************************************************)
\* The last call was load_progress() on a file found in this state.
Loaded(file) == call.op = "load_progress" /\ pre.file = file

(***************************************************************************)
(* C22: when the progress file is present but not parseable, load returns  *)
(* the default record and raises no error.                                 *)
(***************************************************************************)
C22_MalformedRecovered ==
    Loaded(Garbage) => ~call.raised /\ progress = load_progress(NoFile)

(***************************************************************************)
(* C23: when no progress file exists, load returns a record with an empty  *)
(* best-moves map, an empty best-stars map, volume 0.4 and muted false.    *)
(***************************************************************************)
C23_DefaultRecord ==
    Loaded(NoFile) =>
       /\ ~call.raised
       /\ HasKey(progress, "best_moves") /\ progress["best_moves"] = EmptyDict
       /\ HasKey(progress, "best_stars") /\ progress["best_stars"] = EmptyDict
       /\ HasKey(progress, "volume") /\ progress["volume"] = DefaultVolume
       /\ HasKey(progress, "muted") /\ progress["muted"] = FALSE

\* What load does return without a file: the three flat keys with no
\* best, unlocked, and nothing else; the file then holds the same.
DefaultIsFlat ==
    Loaded(NoFile) =>
       /\ ~call.raised
       /\ progress = DefaultData
       /\ disk = File(DefaultData)

\* The last call wrote the file.
Saved == call.op \in {"save_progress", "set_volume_callback", "toggle_mute"}

(***************************************************************************)
(* C24: loading a file that holds the legacy flat keys returns a record    *)
(* whose best moves are in the nested best_moves map keyed by size-key,    *)
(* and no save ever writes the legacy flat keys.                           *)
(***************************************************************************)
C24_MigratesFlatKeys ==
    /\ Loaded(File(FlatScores)) =>
           /\ ~call.raised
           /\ HasKey(progress, "best_moves")
           /\ Get(progress["best_moves"], "3x3", None) = 18
           /\ \A k \in SizeKeys : ~HasKey(progress, FlatKey(k))
    /\ Saved => \A k \in SizeKeys : ~HasKey(disk.data, FlatKey(k))

\* What the code does instead: it migrates the other way.  A loaded record
\* and a written file hold the flat keys and never the nested map.
MigratesToFlatKeys ==
    /\ (call.op = "load_progress" /\ ~call.raised) =>
           /\ ~HasKey(progress, "best_moves")
           /\ \A k \in SizeKeys : HasKey(progress, FlatKey(k))
    /\ Saved => ~HasKey(disk.data, "best_moves")
    /\ Loaded(File(NestedScores)) => progress["best_3x3"] = 18

(***************************************************************************)
(* C25: round trip.  For every file content that load accepts,             *)
(* save(load()) followed by load() returns a record identical to the one   *)
(* the first load returned.                                                *)
(***************************************************************************)
C25_RoundTrip ==
    Chain = 3 => ~call.raised /\ progress = pre.first

\* A round trip that began with the file holding the nested maps.
C25_Witness ==
    /\ Chain = 3 /\ call.op = "load_progress"
    /\ progress["best_3x3"] = 18
    /\ HasKey(progress, "best_stars") /\ HasKey(progress, "volume")
    /\ ~HasKey(progress, "best_moves")

(***************************************************************************)
(* C26: after every volume change or mute toggle handled by the settings   *)
(* callbacks the progress record has been saved when the callback returns: *)
(* the persisted volume and muted values equal the in-memory ones.         *)
(***************************************************************************)
C26_SettingsSaved ==
    call.op \in {"set_volume_callback", "toggle_mute"} =>
       /\ disk.exists /\ disk.parses
       /\ disk.data = progress
       /\ HasKey(disk.data, "volume") = HasKey(progress, "volume")
       /\ Get(disk.data, "volume", DefaultVolume)
             = Get(progress, "volume", DefaultVolume)
       /\ Get(disk.data, "muted", FALSE) = Get(progress, "muted", FALSE)
       /\ call.op = "set_volume_callback" =>
             progress["volume"] = call.args[1]

\* The volume was set to 100 after the sound had been muted.
C26_Witness ==
    /\ call.op = "set_volume_callback" /\ call.args = <<100>>
    /\ Get(progress, "muted", FALSE) = TRUE
    /\ HasKey(disk.data, "volume") /\ disk.data["volume"] = 100
    /\ pre.file.exists /\ Get(pre.file.data, "volume", DefaultVolume) = 0

(***************************************************************************)
(* Claims about the gallery.                                               *)
(***************************************************************************)
\* The list holds an entry with this filename.
HasEntry(memories, filename) ==
    \E n \in 1 .. Len(memories) : memories[n].filename = filename

(***************************************************************************)
(* C27: delete_memory(f).  When it returns True, no entry with filename f  *)
(* remains in the instance's memory or in the gallery file, and the image  *)
(* file f does not exist; it returns True also when the image file was     *)
(* already missing; when removing the file fails it returns False and the  *)
(* metadata, in memory and in the file, is unchanged.                      *)
(***************************************************************************)
C27_DeleteMemory ==
    call.op = "delete_memory" =>
       LET i == call.args[1]
           f == call.args[2]
           os_error == call.args[3]
       IN  /\ call.result = TRUE =>
                 /\ ~HasEntry(gallery_data[i], f)
                 /\ ~HasEntry(gallery_json, f)
                 /\ f \notin image_files
           /\ f \notin pre.files => call.result = TRUE
           /\ (f \in pre.files /\ os_error) => call.result = FALSE
           /\ call.result = FALSE =>
                 /\ gallery_data = pre.data
                 /\ gallery_json = pre.json
                 /\ image_files = pre.files

\* A delete whose os.remove failed, on an entry both in memory and on file.
C27_Witness ==
    /\ call.op = "delete_memory" /\ call.result = FALSE
    /\ HasEntry(gallery_data[call.args[1]], call.args[2])
    /\ HasEntry(gallery_json, call.args[2])
    /\ call.args[2] \in image_files

\* A delete of an entry whose image file was already gone.
C27_WitnessMissingFile ==
    /\ call.op = "delete_memory" /\ call.result = TRUE
    /\ HasEntry(pre.data[call.args[1]], call.args[2])
    /\ call.args[2] \notin pre.files

(***************************************************************************)
(* Claims about the Custom Puzzle screen and the board's image.            *)
(***************************************************************************)
\* The status texts _select_image sets for a failed selection or load.
FailureMessages == {MSG_NO_SELECTION, MSG_LOAD_ERROR}

\* A pass that began on the Custom Puzzle screen with a click on Select
\* Image, whose selection or load did not succeed.
SelectionFailed ==
    /\ pc = "loop" /\ game_state = STATE_CUSTOM_PUZZLE
    /\ call'.op = "frame" /\ Len(call'.args[1]) >= 1
    /\ call'.args[1][1] = <<"MOUSEBUTTONDOWN", "Select Image">>
    /\ status_message' # MSG_LOADED

(***************************************************************************)
(* C28: when image selection or image loading fails on the Custom Puzzle   *)
(* screen, a status message for the failure is set, no error propagates,   *)
(* game_state stays CustomPuzzle (it changes only where a fade requested   *)
(* earlier completes in the same pass), and the board, the selected level  *)
(* and the image loaded before are unchanged.                              *)
(***************************************************************************)
C28_ImageFailureLocal ==
    [][SelectionFailed =>
          /\ ~call'.raised
          /\ status_message' \in FailureMessages
          /\ \/ game_state' = STATE_CUSTOM_PUZZLE
             \/ in_transition /\ ~in_transition' /\ game_state' = target_state
          /\ target_state' \in {target_state, NoTarget}
          /\ board' = board
          /\ selected_level' = selected_level
          /\ image_loaded' = image_loaded]_vars

\* A load failed after an image had been loaded: the screen shows the
\* error and the earlier image is kept.
C28_Witness ==
    /\ call.op = "frame" /\ ~call.raised
    /\ Dispatched("MOUSEBUTTONDOWN", "Select Image")
    /\ game_state = STATE_CUSTOM_PUZZLE
    /\ status_message = MSG_LOAD_ERROR
    /\ image_loaded

(***************************************************************************)
(* C29: in every pass of the frame loop, get_cropped_image is invoked only *)
(* on a board for which is_solved() is true when the call is made.         *)
(***************************************************************************)
C29_CropOnlySolved ==
    \A i \in 1 .. Len(crops) : crops[i] = TRUE

\* The call made by the renderer, the one place where is_solved() has been
\* tested first.
CroppedSolved ==
    \E i \in 1 .. Len(crops) : crops[i] = TRUE

\* Some tile of the global board carries a fragment.
Textured == board.exists /\ \E cell \in DOMAIN board.tiles :
                                board.tiles[cell].image # NoImage

(***************************************************************************)
(* C30: on every textured board, a custom puzzle started through           *)
(* start_custom_game included, whenever is_solved() holds every non-empty  *)
(* cell (r, c) shows the fragment cut from region (r, c) of the source     *)
(* image, so that get_cropped_image reproduces the original image.         *)
(***************************************************************************)
C30_SolvedShowsOriginal ==
    (Textured /\ BoardSolved) =>
        \A cell \in DOMAIN board.tiles :
           board.tiles[cell].number # 0 =>
              get_cropped_image(board.rows, board.rows, board.tiles)[cell]
                 = subsurface(cell[1], cell[2])

\* A custom puzzle solved by the player: two fragments are not in place.
SolvedScrambled ==
    /\ Textured /\ BoardSolved /\ hud_move_count > 0
    /\ \E cell \in DOMAIN board.tiles :
          /\ board.tiles[cell].number # 0
          /\ board.tiles[cell].image # subsurface(cell[1], cell[2])

(***************************************************************************)
(* Claims about the board's geometry, the solved screen and the settings.  *)
(***************************************************************************)
(***************************************************************************)
(* C31: after construction and after every swap (by shuffle or click_at),  *)
(* each tile's rect is the pixel rectangle of the grid cell that holds the *)
(* tile, so a point lies inside the rect of the tile stored in a cell      *)
(* exactly when it lies inside that cell's rectangle.                      *)
(***************************************************************************)
C31_RectsFollowCells ==
    alive =>
       \A cell \in Cells(rows, cols) :
          /\ tiles[cell].rect = Rect(CellX(cols, cell[2]), CellY(rows, cell[1]),
                                     TileSize)
          /\ \A p \in MousePositions(rows, cols) :
                collidepoint(tiles[cell].rect, p) <=> cell \in CellsAt(rows, cols, p)

\* A click slid a tile on a 2x3 board that a shuffle had rearranged before:
\* the tile now in the clicked cell's old place is hit at its new cell.
C31_Witness ==
    /\ alive /\ call.op = "click_at"
    /\ rows = 2 /\ cols = 3
    /\ empty_pos # pre.empty_pos
    /\ tiles[pre.empty_pos].number # 0
    /\ collidepoint(tiles[pre.empty_pos].rect,
                    <<CellX(cols, pre.empty_pos[2]), CellY(rows, pre.empty_pos[1])>>)

\* A pass of the frame loop at whose end the screen is Playing or Paused
\* and the board of a level of this kind ("dict": custom, "LevelInfo":
\* built-in) is solved.
SolvedPassOf(kind) ==
    /\ pc = "loop" /\ call'.op = "frame"
    /\ selected_level'.kind = kind
    /\ game_state' \in {STATE_PLAYING, STATE_PAUSED}
    /\ board'.exists /\ is_solved(board'.rows, board'.rows, board'.tiles)

\* The pass raised nothing and left in progress the bests of a solve of the
\* level's edge length with the counter's value.
SolveRecorded ==
    /\ ~call'.raised
    /\ progress' = record_solve(progress, selected_level'.rows, hud_move_count',
                                compute_rating(selected_level'.rows, hud_move_count'))

(***************************************************************************)
(* C32: for a custom level started from the Custom Puzzle screen, a pass   *)
(* that shows the solved board computes the rating from the level's edge   *)
(* length and records best moves and best stars as for a built-in level of *)
(* that size, without raising an error.                                    *)
(***************************************************************************)
C32_CustomSolveRecorded ==
    [][SolvedPassOf("dict") => SolveRecorded]_vars

\* The same statement for the built-in levels, which holds.
BuiltInSolveRecorded ==
    [][SolvedPassOf("LevelInfo") => SolveRecorded]_vars

\* A game was started after the pending switch_state request: in an
\* earlier pass (only a game start leaves Playing with a fade to the menu
\* pending) or by the click dispatched in the pass now ending.
StartedInRamp ==
    /\ in_transition
    /\ \/ game_state = STATE_PLAYING /\ target_state = STATE_MENU
       \/ game_state = STATE_LEVEL_SELECT /\ Dispatched("MOUSEBUTTONDOWN", "Level")'
       \/ /\ game_state = STATE_CUSTOM_PUZZLE /\ image_loaded
          /\ Dispatched("MOUSEBUTTONDOWN", "Start Puzzle")'

(***************************************************************************)
(* C33: when a fade completes, game_state equals the state most recently   *)
(* requested, through switch_state or through an immediate game start; a   *)
(* game started while an earlier Back transition is still fading remains   *)
(* in Playing after that fade ends.                                        *)
(***************************************************************************)
C33_LatestRequestWins ==
    [][(CompletedPass /\ in_transition /\ ~in_transition') =>
          game_state' = IF StartedInRamp THEN STATE_PLAYING
                        ELSE target_state]_vars

\* The fade to the menu ended over a game that had been started during it:
\* the menu is shown while the board and the level of that game remain.
MenuOverStartedGame ==
    /\ call.op = "frame" /\ ~call.raised
    /\ game_state = STATE_MENU /\ ~in_transition
    /\ board.exists /\ selected_level.kind = "LevelInfo"
    /\ hud_move_count = 0 /\ ~HasKey(progress, "best_moves")

\* The filenames of the entries of a memories list.
Names(memories) == {memories[n].filename : n \in 1 .. Len(memories)}

(***************************************************************************)
(* C34: with the two Gallery instances of the program, after any           *)
(* interleaving of save_memory on the first and delete_memory on the       *)
(* second the gallery file holds exactly the entries saved and not         *)
(* deleted: each save adds its entry to those on file, each delete that    *)
(* returns True takes its entry away, and nothing else changes the file.   *)
(***************************************************************************)
C34_SavedMinusDeleted ==
    [][/\ call'.op = "save_memory" =>
             Names(gallery_json') = Names(gallery_json) \cup {call'.args[2]}
       /\ (call'.op = "delete_memory" /\ call'.result = TRUE) =>
             Names(gallery_json') = Names(gallery_json) \ {call'.args[2]}
       /\ call'.op \notin {"save_memory", "delete_memory"} =>
             gallery_json' = gallery_json]_vars

\* A delete on the screen's instance returned True and took from the file
\* an entry the other instance had saved, which is not the one deleted and
\* whose image is still there.
SavedEntryLost ==
    /\ call.op = "delete_memory" /\ call.args[1] = "gallery_screen"
    /\ call.result = TRUE
    /\ \E f \in Names(pre.json) \ Names(gallery_json) :
          f # call.args[2] /\ f \in image_files

\* The pass now ending built a board for a built-in level: a level button
\* was clicked on Level Select, or Restart in the pause menu.
BoardBuilt ==
    /\ pc = "loop" /\ call'.op = "frame"
    /\ \/ game_state = STATE_LEVEL_SELECT /\ Dispatched("MOUSEBUTTONDOWN", "Level")'
       \/ /\ game_state = STATE_PAUSED /\ selected_level.kind = "LevelInfo"
          /\ Dispatched("MOUSEBUTTONDOWN", "Restart")'

(***************************************************************************)
(* C35: a board presented at level start or restart is never already       *)
(* solved: after PickLevel or Restart is_solved() is false, and no best is *)
(* recorded before the player has made a successful move.                  *)
(***************************************************************************)
C35_StartsUnsolved ==
    [][BoardBuilt => (~BoardSolved' /\ progress' = progress)]_vars

\* A level started solved and a best of 0 moves was recorded for it at once.
SolvedAtStart ==
    /\ call.op = "frame" /\ Dispatched("MOUSEBUTTONDOWN", "Level")
    /\ game_state = STATE_PLAYING /\ BoardSolved
    /\ hud_move_count = 0
    /\ HasKey(progress, "best_moves")
    /\ Get(progress["best_moves"], star_key(board.rows), None) = 0

\* While a level is played the counter goes up by one in a pass that slid
\* a tile and keeps its value in every other pass.
CounterCountsMoves ==
    [][(pc = "loop" /\ call'.op = "frame" /\ game_state = STATE_PLAYING) =>
          hud_move_count' = hud_move_count
             + (IF board'.empty_pos # board.empty_pos THEN 1 ELSE 0)]_vars

(***************************************************************************)
(* C36: while a level is played the move counter is the number of          *)
(* successful tile moves made since the current board was built: it is 0   *)
(* right after PickLevel, whatever bests are stored for that size, and     *)
(* from then on changes only by one per tile slid.                         *)
(***************************************************************************)
C36_CounterFromZero ==
    [][/\ (pc = "loop" /\ call'.op = "frame" /\ game_state = STATE_LEVEL_SELECT
              /\ Dispatched("MOUSEBUTTONDOWN", "Level")') =>
             hud_move_count' = 0
       /\ (pc = "loop" /\ call'.op = "frame" /\ game_state = STATE_PLAYING) =>
             hud_move_count' = hud_move_count
                + (IF board'.empty_pos # board.empty_pos THEN 1 ELSE 0)]_vars

\* A level was picked again after it had been solved in 2 moves: the
\* unsolved new board is shown with the counter at the stored best.
CounterPreloaded ==
    /\ call.op = "frame" /\ Dispatched("MOUSEBUTTONDOWN", "Level")
    /\ game_state = STATE_PLAYING /\ ~BoardSolved
    /\ hud_move_count = 2
    /\ Get(Get(progress, "best_moves", EmptyDict), star_key(board.rows), None) = 2

(***************************************************************************)
(* C37: once the board is solved, further tile clicks change neither the   *)
(* board nor the move counter until Restart or a new level is started.     *)
(***************************************************************************)
C37_SolvedBoardFrozen ==
    [][(pc = "loop" /\ call'.op = "frame" /\ game_state = STATE_PLAYING
          /\ BoardSolved /\ Dispatched("MOUSEBUTTONDOWN", "")') =>
          (board' = board /\ hud_move_count' = hud_move_count)]_vars

\* A click on the solved screen slid a tile: the board is unsolved again
\* with the counter one higher, and the best of the solve stays recorded.
SolvedThenMoved ==
    /\ call.op = "frame" /\ Dispatched("MOUSEBUTTONDOWN", "") /\ ~call.raised
    /\ game_state = STATE_PLAYING /\ board.exists /\ ~BoardSolved
    /\ cues = <<"move", "place">>
    /\ HasKey(progress, "best_moves")
    /\ Get(progress["best_moves"], star_key(board.rows), None) < hud_move_count

\* A pass that began on the Custom Puzzle screen, while the screen showed
\* the message of a failed selection, clicked Start Puzzle and made no new
\* selection.
StartAfterFailure ==
    /\ pc = "loop" /\ game_state = STATE_CUSTOM_PUZZLE
    /\ status_message \in FailureMessages
    /\ call'.op = "frame"
    /\ Dispatched("MOUSEBUTTONDOWN", "Start Puzzle")'
    /\ ~Dispatched("MOUSEBUTTONDOWN", "Select Image")'

(***************************************************************************)
(* C38: after a failed or cancelled image selection on the Custom Puzzle   *)
(* screen, a click on Start Puzzle starts no game (no board is built, no   *)
(* level is selected, no change to Playing is requested) until a later     *)
(* selection succeeds, even when an earlier selection had succeeded.       *)
(***************************************************************************)
C38_NoStartAfterFailure ==
    [][StartAfterFailure =>
          /\ board' = board
          /\ selected_level' = selected_level
          /\ target_state' # STATE_PLAYING
          /\ game_state' # STATE_PLAYING]_vars

\* A custom game was started while the screen still shows the message of
\* the failed selection.
StartedAfterFailure ==
    /\ call.op = "frame" /\ ~call.raised
    /\ Dispatched("MOUSEBUTTONDOWN", "Start Puzzle")
    /\ status_message \in FailureMessages
    /\ image_loaded
    /\ board.exists /\ selected_level = CustomLevel(board.rows)
    /\ game_state = STATE_PLAYING /\ hud_move_count = 0

\* The level the stored settings ask for: 0 when muted, else the volume.
StoredLevel(data) ==
    IF Get(data, "muted", FALSE) THEN 0 ELSE Get(data, "volume", DefaultVolume)

\* While the program runs the mixer is at the level the record asks for.
MixerFollowsRecord == pc = "loop" => mixer_volume = StoredLevel(progress)

\* toggle_mute() leaves the stored volume as it is, present or not.
MuteKeepsVolume ==
    [][call'.op = "toggle_mute" =>
          /\ HasKey(progress', "volume") = HasKey(progress, "volume")
          /\ Get(progress', "volume", DefaultVolume)
                = Get(progress, "volume", DefaultVolume)]_vars

(***************************************************************************)
(* C39: after start-up and after any sequence of volume changes and mute   *)
(* toggles through the settings callbacks, the level applied to the audio  *)
(* module is 0 when the stored muted flag is true and the stored volume    *)
(* otherwise, and a mute toggle never changes the stored volume.           *)
(***************************************************************************)
C39_AppliedVolume == []MixerFollowsRecord /\ MuteKeepsVolume

\* The mute was taken off a record that holds the volume 100: the mixer,
\* silent until then, is at 100.
C39_Witness ==
    /\ pc = "loop" /\ call.op = "toggle_mute"
    /\ Get(progress, "muted", FALSE) = FALSE
    /\ HasKey(progress, "volume") /\ progress["volume"] = 100
    /\ mixer_volume = 100
    /\ pre.file.exists /\ Get(pre.file.data, "muted", FALSE) = TRUE
    /\ Get(pre.file.data, "volume", DefaultVolume) = 100

(***************************************************************************)
(* The permutation of a board: cell k (row-major, from 1) is mapped to the *)
(* number of the tile on it, the empty tile counting as rows*cols, its     *)
(* number of order in the solved layout.                                   *)
(***************************************************************************)
CellIndex(C, cell) == cell[1] * C + cell[2] + 1

Content(R, C, t, cell) == IF t[cell].number = 0 THEN R * C ELSE t[cell].number

\* The pairs of cells whose contents stand in the reverse order.
Inversions(R, C, t) ==
    {pair \in Cells(R, C) \X Cells(R, C) :
        /\ CellIndex(C, pair[1]) < CellIndex(C, pair[2])
        /\ Content(R, C, t, pair[1]) > Content(R, C, t, pair[2])}

PermutationParity(R, C, t) == Cardinality(Inversions(R, C, t)) % 2

\* Manhattan distance from pos to the bottom-right cell.
CornerDistance(R, C, pos) == (R - 1 - pos[1]) + (C - 1 - pos[2])

(***************************************************************************)
(* C40: in every board state reachable from construction through shuffle   *)
(* and click_at, the parity of the permutation that maps cells to their    *)
(* contents (0 taken as the content of the last cell of the solved layout) *)
(* equals the parity of the Manhattan distance between empty_pos and the   *)
(* bottom-right cell.                                                      *)
(***************************************************************************)
C40_ParityFollowsEmpty ==
    alive => PermutationParity(rows, cols, tiles)
                = CornerDistance(rows, cols, empty_pos) % 2

\* A click has just slid a tile of a 2x3 board: the empty cell is an odd
\* number of steps from its corner and the permutation is odd.
C40_Witness ==
    /\ alive /\ rows = 2 /\ cols = 3
    /\ call.op = "click_at" /\ Numbers(tiles) # pre.numbers
    /\ CornerDistance(rows, cols, empty_pos) = 3
    /\ PermutationParity(rows, cols, tiles) = 1
    /\ Cardinality(Inversions(rows, cols, tiles)) >= 3

====
